---- MODULE Spec2Model ----
(***************************************************************************)
(* ndoh-hub: the validate -> execute -> submit -> anonymize pipeline of    *)
(* Registrations and Changes (registrations/tasks.py, changes/tasks.py).   *)
(*                                                                         *)
(* One record is followed through the pipeline.  JSON values are strings   *)
(* (true is "true"); record.data is a function from the keys present to    *)
(* their values, and data["invalid_fields"] is kept beside it as the       *)
(* sequence rec.invalid (the key is present iff the sequence is not        *)
(* empty).  A message set is named by the parts of its short name          *)
(* ("whatsapp_" prefix, set, authority, batch); a substring test on the    *)
(* short name is a test on these parts.                                    *)
(***************************************************************************)
EXTENDS Integers, Sequences, FiniteSets, TLC

VARIABLES
    rec,        \* the Registration / Change row in the record store
    subs,       \* Subscription Service: the registrant's subscriptions
    reqs,       \* SubscriptionRequest rows created so far
    idents,     \* Identity Service: identities, the registrant's is idents[1]
    chains,     \* Celery chains enqueued for the record, in order of enqueueing
    runs,       \* invocations of the record's run task so far
    hist,       \* history: what the run invocations did
    hook,       \* an HTTPRetryMixin task (http_request_with_retries)
    pii,        \* history of the record's personal information: the record as
                \* created, the deliveries of its anonymization task, the
                \* record the rehydration returned, the registrant's other records
    calls,      \* invocations of get_or_update_identity_by_address in progress
    sequencer   \* a lookup of the schedule sequencer: its inputs and results

vars == <<rec, subs, reqs, idents, chains, runs, hist, hook, pii, calls,
         sequencer>>

-----------------------------------------------------------------------------
(* Bounds of the model *)

\* invocations of the run task per record (delivery is at-least-once)
MaxRuns == 2

-----------------------------------------------------------------------------
(* Maps with string keys *)

Has(d, k) == k \in DOMAIN d

Get(d, k, dflt) == IF k \in DOMAIN d THEN d[k] ELSE dflt

Put(d, k, v) == [x \in (DOMAIN d) \cup {k} |-> IF x = k THEN v ELSE d[x]]

Pop(d, k) == [x \in (DOMAIN d) \ {k} |-> d[x]]

PopAll(d, ks) == [x \in (DOMAIN d) \ ks |-> d[x]]

EmptyMap == [x \in {} |-> ""]

-----------------------------------------------------------------------------
(* ndoh_hub.utils validators: a value is valid iff it is one of the        *)
(* well-formed samples below                                                *)

IdNames == <<"id1", "id2", "id3", "id4", "id5", "id6", "id7", "id8">>

ValidUuids == {IdNames[i] : i \in DOMAIN IdNames} \cup {"operator-uuid"}

ValidLangs == {"eng_ZA", "zul_ZA"}

ValidMsisdns == {"+27821110000", "+27821111111", "+27821112222"}

is_valid_uuid(v) == v \in ValidUuids

is_valid_lang(v) == v \in ValidLangs

is_valid_msisdn(v) == v \in ValidMsisdns

is_valid_date(v) == v \in {"1999-01-27", "1982-03-15", "2016-01-01", "2015-12-01"}

is_valid_edd(v) == v \in {"2016-05-01", "2016-02-20", "2016-09-22"}

is_valid_faccode(v) == v \in {"123456"}

is_valid_sanc_no(v) == v \in {"12345678"}

is_valid_persal_no(v) == v \in {"11114444"}

is_valid_sa_id_no(v) == v \in {"8108015001051"}

is_valid_passport_no(v) == v \in {"abc1234"}

is_valid_passport_origin(v) == v \in {"na", "zw"}

is_valid_id_type(v) == v \in {"sa_id", "passport", "none"}

-----------------------------------------------------------------------------
(* The keys of record.data as the code sees them *)

DataFields(r) ==
    (DOMAIN r.data) \cup (IF r.invalid # <<>> THEN {"invalid_fields"} ELSE {})

-----------------------------------------------------------------------------
(* changes/tasks.py: ValidateImplement, the validation checks *)

LossReasons == {"miscarriage", "stillbirth", "babyloss"}

check_pmtct_loss_optout_reason(c) ==
    IF "reason" \notin DataFields(c) THEN <<"Optout reason is missing">>
    ELSE IF c.data["reason"] \notin LossReasons THEN <<"Not a valid loss reason">>
    ELSE <<>>

check_pmtct_nonloss_optout_reason(c) ==
    IF "reason" \notin DataFields(c) THEN <<"Optout reason is missing">>
    ELSE IF c.data["reason"] \notin {"not_hiv_pos", "not_useful", "other", "unknown"}
         THEN <<"Not a valid nonloss reason">>
    ELSE <<>>

check_nurse_update_detail(c) ==
    LET f == DataFields(c)
        n == Cardinality(f)
        one(valid, msg) ==
            IF n # 1 THEN <<"Only one detail update can be submitted per Change">>
            ELSE IF ~valid THEN <<msg>>
            ELSE <<>>
    IN  IF n = 0 THEN <<"No details to update">>
        ELSE IF "faccode" \in f
             THEN one(Has(c.data, "faccode") /\ is_valid_faccode(c.data["faccode"]),
                      "Faccode invalid")
        ELSE IF "sanc_no" \in f
             THEN one(Has(c.data, "sanc_no") /\ is_valid_sanc_no(c.data["sanc_no"]),
                      "sanc_no invalid")
        ELSE IF "persal_no" \in f
             THEN one(Has(c.data, "persal_no") /\ is_valid_persal_no(c.data["persal_no"]),
                      "persal_no invalid")
        ELSE IF "id_type" \in f /\ c.data["id_type"] \notin {"passport", "sa_id"}
             THEN <<"ID type should be passport or sa_id">>
        ELSE IF "id_type" \in f /\ c.data["id_type"] = "sa_id"
             THEN IF n # 3 \/ f # {"id_type", "sa_id_no", "dob"}
                  THEN <<"SA ID update requires fields id_type, sa_id_no, dob">>
                  ELSE IF ~is_valid_date(c.data["dob"])
                       THEN <<"Date of birth is invalid">>
                  ELSE IF ~is_valid_sa_id_no(c.data["sa_id_no"])
                       THEN <<"SA ID number is invalid">>
                  ELSE <<>>
        ELSE IF "id_type" \in f /\ c.data["id_type"] = "passport"
             THEN IF n # 4 \/ f # {"id_type", "passport_no", "passport_origin", "dob"}
                  THEN <<"Passport update requires fields id_type, passport_no, passport_origin, dob">>
                  ELSE IF ~is_valid_date(c.data["dob"])
                       THEN <<"Date of birth is invalid">>
                  ELSE IF ~is_valid_passport_no(c.data["passport_no"])
                       THEN <<"Passport number is invalid">>
                  ELSE IF ~is_valid_passport_origin(c.data["passport_origin"])
                       THEN <<"Passport origin is invalid">>
                  ELSE <<>>
        ELSE <<"Could not parse detail update request">>

\* the check, were it to report the fields of a change of msisdn one by one
ChecksMsisdnsOneByOne(c) ==
    LET one(k, missing, invalid) ==
            IF ~Has(c.data, k) THEN <<missing>>
            ELSE IF ~is_valid_msisdn(c.data[k]) THEN <<invalid>>
            ELSE <<>>
    IN  one("msisdn_old", "Old msisdn missing", "Invalid old msisdn")
        \o one("msisdn_new", "New msisdn missing", "Invalid new msisdn")
        \o one("msisdn_device", "Device msisdn missing", "Invalid device msisdn")

check_nurse_change_msisdn(c) ==
    LET f == DataFields(c)
    IN  IF Cardinality(f) # 3 \/ f # {"msisdn_old", "msisdn_new", "msisdn_device"}
        THEN <<"SA ID update requires fields msisdn_old, msisdn_new, msisdn_device">>
        ELSE IF ~is_valid_msisdn(c.data["msisdn_old"]) THEN <<"Invalid old msisdn">>
        ELSE IF ~is_valid_msisdn(c.data["msisdn_new"]) THEN <<"Invalid old msisdn">>
        ELSE IF ~(c.data["msisdn_device"] = c.data["msisdn_new"]
                  \/ c.data["msisdn_device"] = c.data["msisdn_old"])
             THEN <<"Device msisdn should be the same as new or old msisdn">>
        ELSE <<>>

check_nurse_optout(c) ==
    IF "reason" \notin DataFields(c) THEN <<"Optout reason is missing">>
    ELSE IF c.data["reason"] \notin
            {"job_change", "number_owner_change", "not_useful", "other", "unknown"}
         THEN <<"Not a valid optout reason">>
    ELSE <<>>

check_momconnect_loss_optout_reason(c) ==
    IF "reason" \notin DataFields(c) THEN <<"Optout reason is missing">>
    ELSE IF c.data["reason"] \notin LossReasons THEN <<"Not a valid loss reason">>
    ELSE <<>>

check_momconnect_nonloss_optout_reason(c) ==
    IF "reason" \notin DataFields(c) THEN <<"Optout reason is missing">>
    ELSE IF c.data["reason"] \notin {"not_useful", "other", "unknown", "sms_failure"}
         THEN <<"Not a valid nonloss reason">>
    ELSE <<>>

check_momconnect_change_language(c) ==
    IF "language" \notin DataFields(c) THEN <<"language field is missing">>
    ELSE IF ~is_valid_lang(c.data["language"]) THEN <<"Not a valid language choice">>
    ELSE <<>>

check_momconnect_change_msisdn(c) ==
    IF "msisdn" \notin DataFields(c) THEN <<"msisdn field is missing">>
    ELSE IF ~is_valid_msisdn(c.data["msisdn"]) THEN <<"Not a valid MSISDN">>
    ELSE <<>>

check_momconnect_change_identification(c) ==
    LET f == DataFields(c)
    IN  IF "id_type" \notin f THEN <<"ID type missing">>
        ELSE IF c.data["id_type"] = "sa_id"
             THEN IF "sa_id_no" \notin f THEN <<"SA ID number missing">>
                  ELSE IF ~is_valid_sa_id_no(c.data["sa_id_no"])
                       THEN <<"SA ID number invalid">>
                  ELSE <<>>
        ELSE IF c.data["id_type"] = "passport"
             THEN (IF "passport_no" \notin f THEN <<"Passport number missing">>
                   ELSE IF ~is_valid_passport_no(c.data["passport_no"])
                        THEN <<"Passport number invalid">>
                   ELSE <<>>)
                  \o
                  (IF "passport_origin" \notin f THEN <<"Passport origin missing">>
                   ELSE IF ~is_valid_passport_origin(c.data["passport_origin"])
                        THEN <<"Passport origin invalid">>
                   ELSE <<>>)
        ELSE <<"ID type should be 'sa_id' or 'passport'">>

check_admin_change_subscription(c) ==
    LET f == DataFields(c)
    IN  (IF "messageset" \notin f /\ "language" \notin f
         THEN <<"One of these fields must be populated: messageset, language">>
         ELSE <<>>)
        \o
        (IF "subscription" \notin f THEN <<"Subscription field is missing">> ELSE <<>>)

check_switch_channel(c) ==
    IF "channel" \notin DataFields(c) THEN <<"'channel' is a required field">>
    ELSE IF c.data["channel"] \notin {"whatsapp", "sms"}
         THEN <<"'channel' must be one of ['sms', 'whatsapp']">>
    ELSE <<>>

\* "x in change.action" for the two substring tests of validate
IsPmtctLoss(a) == a \in {"pmtct_loss_switch", "pmtct_loss_optout"}

IsMomconnectLoss(a) == a \in {"momconnect_loss_switch", "momconnect_loss_optout"}

\* the errors of the branch of validate that the action selects
ChangeTypeErrors(c) ==
    IF IsPmtctLoss(c.action) THEN check_pmtct_loss_optout_reason(c)
    ELSE IF c.action = "pmtct_nonloss_optout" THEN check_pmtct_nonloss_optout_reason(c)
    ELSE IF c.action = "nurse_update_detail" THEN check_nurse_update_detail(c)
    ELSE IF c.action = "nurse_change_msisdn" THEN check_nurse_change_msisdn(c)
    ELSE IF c.action = "nurse_optout" THEN check_nurse_optout(c)
    ELSE IF IsMomconnectLoss(c.action) THEN check_momconnect_loss_optout_reason(c)
    ELSE IF c.action = "momconnect_nonloss_optout"
         THEN check_momconnect_nonloss_optout_reason(c)
    ELSE IF c.action = "momconnect_change_language"
         THEN check_momconnect_change_language(c)
    ELSE IF c.action = "momconnect_change_msisdn" THEN check_momconnect_change_msisdn(c)
    ELSE IF c.action = "momconnect_change_identification"
         THEN check_momconnect_change_identification(c)
    ELSE IF c.action = "admin_change_subscription"
         THEN check_admin_change_subscription(c)
    ELSE IF c.action = "switch_channel" THEN check_switch_channel(c)
    ELSE <<>>

\* the check of registrant_id, were it to reject every id
RejectsEveryRegistrant(r) == <<"Invalid UUID registrant_id">>

RegistrantErrors(r) ==
    IF ~is_valid_uuid(r.registrant_id) THEN <<"Invalid UUID registrant_id">> ELSE <<>>

ChangeValidationErrors(c) == RegistrantErrors(c) \o ChangeTypeErrors(c)

-----------------------------------------------------------------------------
(* Message sets, and the schedule sequencer of ndoh_hub.utils *)

MsName(wa, set, auth, batch) == [wa |-> wa, set |-> set, auth |-> auth, batch |-> batch]

\* substring tests on a message set's short name
InName(part, ms) ==
    CASE part = "whatsapp" -> ms.wa
      [] part = "nurseconnect" -> ms.set = "nurseconnect"
      [] part = "pmtct" -> ms.set \in {"pmtct_prebirth", "pmtct_postbirth"}
      [] part = "pmtct_prebirth" -> ms.set = "pmtct_prebirth"
      [] part = "momconnect_prebirth" -> ms.set = "momconnect_prebirth"
      [] part = "momconnect" -> ms.set \in {"momconnect_prebirth", "momconnect_postbirth"}
      [] part = "prebirth" -> ms.set \in {"pmtct_prebirth", "momconnect_prebirth"}
      [] OTHER -> FALSE

\* a reg_type / set name with its "whatsapp_" prefix split off
IsWhatsappName(n) ==
    n \in {"whatsapp_prebirth", "whatsapp_pmtct_prebirth", "whatsapp_pmtct_postbirth",
           "whatsapp_nurseconnect", "whatsapp_momconnect_postbirth",
           "whatsapp_loss_miscarriage", "whatsapp_loss_stillbirth",
           "whatsapp_loss_babyloss"}

BaseName(n) ==
    CASE n \in {"whatsapp_prebirth", "momconnect_prebirth"} -> "momconnect_prebirth"
      [] n = "whatsapp_pmtct_prebirth" -> "pmtct_prebirth"
      [] n = "whatsapp_pmtct_postbirth" -> "pmtct_postbirth"
      [] n = "whatsapp_nurseconnect" -> "nurseconnect"
      [] n = "whatsapp_momconnect_postbirth" -> "momconnect_postbirth"
      [] n = "whatsapp_loss_miscarriage" -> "loss_miscarriage"
      [] n = "whatsapp_loss_stillbirth" -> "loss_stillbirth"
      [] n = "whatsapp_loss_babyloss" -> "loss_babyloss"
      [] OTHER -> n

\* the short name, were week 30 still to fall in the first batch
ShortNameAfterThreshold(reg_type, authority, weeks) ==
    LET set == BaseName(reg_type)
        batch == IF set = "pmtct_prebirth"
                 THEN (IF weeks > 35 THEN 3 ELSE IF weeks > 30 THEN 2 ELSE 1)
                 ELSE IF set = "pmtct_postbirth"
                 THEN (IF weeks > 2 THEN 2 ELSE 1)
                 ELSE 1
    IN  MsName(IsWhatsappName(reg_type), set, authority, batch)

\* utils.get_messageset_short_name(reg_type, authority, weeks)
get_messageset_short_name(reg_type, authority, weeks) ==
    LET set == BaseName(reg_type)
        batch == IF set = "pmtct_prebirth"
                 THEN (IF weeks >= 35 THEN 3 ELSE IF weeks >= 30 THEN 2 ELSE 1)
                 ELSE IF set = "pmtct_postbirth"
                 THEN (IF weeks > 1 THEN 2 ELSE 1)
                 ELSE 1
    IN  MsName(IsWhatsappName(reg_type), set, authority, batch)

\* messages per week of a message set's default schedule
MsgsPerWeek(ms) ==
    IF ms.set = "pmtct_prebirth" THEN ms.batch
    ELSE IF ms.set = "pmtct_postbirth" THEN 3 - ms.batch
    ELSE 1

\* the default schedule of a message set is named by the message set
ScheduleOf(ms) == ms

\* the first week of a batch of a message set
BatchStart(ms) ==
    IF ms.set = "pmtct_prebirth"
    THEN (CASE ms.batch = 1 -> 7 [] ms.batch = 2 -> 30 [] OTHER -> 35)
    ELSE IF ms.set = "pmtct_postbirth"
    THEN (IF ms.batch = 1 THEN 0 ELSE 2)
    ELSE 0

\* the sequence, were it counted from the first week of the batch with no
\* lower limit: (weeks - batch start) * messages per week + 1
SequenceFromBatchStart(ms, weeks) ==
    <<ms, ScheduleOf(ms),
      IF ms.set \in {"pmtct_prebirth", "pmtct_postbirth"}
      THEN (weeks - BatchStart(ms)) * MsgsPerWeek(ms) + 1
      ELSE 1>>

\* the sequence, were a result below 1 returned as it is
SequenceWithoutLimit(ms, weeks) ==
    LET m == MsgsPerWeek(ms)
    IN  <<ms, ScheduleOf(ms),
          IF ms.set = "pmtct_prebirth"
          THEN (CASE ms.batch = 1 -> (weeks - 6) * m
                  [] ms.batch = 2 -> (weeks - 30) * m
                  [] OTHER -> IF weeks > 41 THEN 20 ELSE (weeks - 35) * m)
          ELSE IF ms.set = "pmtct_postbirth"
          THEN (IF ms.batch = 1 THEN weeks * m + 1 ELSE (weeks - 2) * m + 1)
          ELSE 1>>

\* utils.get_messageset_schedule_sequence(short_name, weeks):
\* <<messageset, schedule, next_sequence_number>>
get_messageset_schedule_sequence(ms, weeks) ==
    LET m == MsgsPerWeek(ms)
        raw == IF ms.set = "pmtct_prebirth"
               THEN (CASE ms.batch = 1 -> (weeks - 6) * m
                       [] ms.batch = 2 -> (weeks - 30) * m
                       [] OTHER -> IF weeks > 41 THEN 20 ELSE (weeks - 35) * m)
               ELSE IF ms.set = "pmtct_postbirth"
               THEN (IF ms.batch = 1 THEN weeks * m + 1 ELSE (weeks - 2) * m + 1)
               ELSE 1
        seq == IF raw < 1 THEN 1 ELSE raw
    IN  <<ms, ScheduleOf(ms), seq>>

\* utils.get_pregnancy_week(today, edd) and utils.get_baby_age(today, dob),
\* today being 2016-01-01
get_pregnancy_week(edd) ==
    CASE edd = "2016-05-01" -> 23
      [] edd = "2016-02-20" -> 33
      [] edd = "2016-09-22" -> 3
      [] OTHER -> 2

get_baby_age(dob) ==
    CASE dob = "2016-01-01" -> 0
      [] dob = "2015-12-01" -> 4
      [] dob = "2016-01-02" -> 0 - 1
      [] OTHER -> 800

-----------------------------------------------------------------------------
(* The record store, the Subscription Service and the Identity Service *)

RecId == "rec1"

\* position of an identity in idents, 0 when the id names none
IdIndex(id) ==
    IF \E i \in DOMAIN IdNames : IdNames[i] = id
    THEN CHOOSE i \in DOMAIN IdNames : IdNames[i] = id
    ELSE 0

Sub(identity, ms, lang, seq) ==
    [identity |-> identity, messageset |-> ms, active |-> TRUE, lang |-> lang,
     next_sequence_number |-> seq, schedule |-> ScheduleOf(ms)]

SubReq(identity, ms, seq, lang, schedule) ==
    [identity |-> identity, messageset |-> ms, next_sequence_number |-> seq,
     lang |-> lang, schedule |-> schedule]

\* sbm_client.get_subscriptions({identity, active: True}): positions in subs
ActiveSubs(ss, identity) ==
    {i \in DOMAIN ss : ss[i].identity = identity /\ ss[i].active}

\* sbm_client.update_subscription(id, {"active": False}) for every id in which
Deactivate(ss, which) ==
    [i \in DOMAIN ss |-> IF i \in which THEN [ss[i] EXCEPT !.active = FALSE] ELSE ss[i]]

Addr(default) ==
    [has_default |-> TRUE, default |-> default, optedout |-> FALSE,
     changes_from |-> <<>>, changes_to |-> <<>>]

BareAddr ==
    [has_default |-> FALSE, default |-> FALSE, optedout |-> FALSE,
     changes_from |-> <<>>, changes_to |-> <<>>]

Identity(details, msisdns) ==
    [details |-> details, msisdn |-> msisdns, identification_history |-> <<>>]

\* the identities, were the update not made
KeepDetails(ids, i, details) == ids

\* is_client.update_identity(id, {"details": details})
SetDetails(ids, i, details) == [ids EXCEPT ![i].details = details]

-----------------------------------------------------------------------------
(* changes/tasks.py: ValidateImplement, the helpers and the action handlers. *)
(* A handler maps the change c and the services' state st = [subs, reqs,     *)
(* idents] to what it leaves behind: the services' state, change.data as     *)
(* saved, the submission task it returns ("none" for None) and whether it    *)
(* raised.                                                                   *)

Eff(ss, rq, ids, data, task) ==
    [subs |-> ss, reqs |-> rq, idents |-> ids, data |-> data, task |-> task,
     crash |-> FALSE]

Crashed(e) == [e EXCEPT !.crash = TRUE, !.task = "none"]

\* the helpers, were they to select other subscriptions: every active one of
\* the registrant, the nurseconnect ones of any identity, all of the
\* registrant's but the nurseconnect ones
DeactivateEveryActive(c, ss) == Deactivate(ss, ActiveSubs(ss, c.registrant_id))

DeactivateAnyNurseconnect(c, ss) ==
    Deactivate(ss, {i \in DOMAIN ss : ss[i].active /\ InName("nurseconnect", ss[i].messageset)})

DeactivateAllButNurseconnect(c, ss) ==
    Deactivate(ss, {i \in ActiveSubs(ss, c.registrant_id) :
                        ~InName("nurseconnect", ss[i].messageset)})

deactivate_all(c, ss) == Deactivate(ss, ActiveSubs(ss, c.registrant_id))

deactivate_all_except_nurseconnect(c, ss) ==
    Deactivate(ss, {i \in ActiveSubs(ss, c.registrant_id) :
                        ~InName("nurseconnect", ss[i].messageset)})

deactivate_nurseconnect(c, ss) ==
    Deactivate(ss, {i \in ActiveSubs(ss, c.registrant_id) :
                        InName("nurseconnect", ss[i].messageset)})

deactivate_pmtct(c, ss) ==
    Deactivate(ss, {i \in ActiveSubs(ss, c.registrant_id) :
                        InName("pmtct", ss[i].messageset)})

\* the last position of a set of positions (0 when there is none)
LastOf(S) == IF S = {} THEN 0 ELSE CHOOSE i \in S : \A j \in S : j <= i

\* the abort test, were it never to hold
NeverAborts(active) == FALSE

\* "if (len(active_subs) == 0)": loss_switch aborts
NoActiveSubscriptions(active) == Cardinality(active) = 0

\* loss_switch: <<switched, effect>>
loss_switch(c, st) ==
    LET active == ActiveSubs(st.subs, c.registrant_id)
        whatsapp == \E i \in active : InName("whatsapp", st.subs[i].messageset)
        ss == deactivate_all_except_nurseconnect(c, st.subs)
        set_name == "loss_" \o c.data["reason"]
        short_name == get_messageset_short_name(
                          IF whatsapp THEN "whatsapp_" \o set_name ELSE set_name,
                          "patient", 0)
        sbm == get_messageset_schedule_sequence(short_name, 0)
        details == st.idents[IdIndex(c.registrant_id)].details
    IN  IF NoActiveSubscriptions(active)
        THEN <<FALSE, Eff(st.subs, st.reqs, st.idents, c.data, "none")>>
        ELSE IF ~Has(details, "lang_code")
        THEN <<FALSE, Crashed(Eff(ss, st.reqs, st.idents, c.data, "none"))>>
        ELSE <<TRUE,
               Eff(ss,
                   Append(st.reqs, SubReq(c.registrant_id, sbm[1], sbm[3],
                                          details["lang_code"], sbm[2])),
                   st.idents, c.data, "none")>>

baby_switch(c, st) ==
    LET active == ActiveSubs(st.subs, c.registrant_id)
        pmtct == {i \in active : InName("pmtct_prebirth", st.subs[i].messageset)}
        mc == {i \in active : InName("momconnect_prebirth", st.subs[i].messageset)}
        wa_pmtct == \E i \in pmtct : InName("whatsapp", st.subs[i].messageset)
        wa_mc == \E i \in mc : InName("whatsapp", st.subs[i].messageset)
        last == LastOf(pmtct \cup mc)
        lang == IF last = 0 THEN "" ELSE st.subs[last].lang
        ss == Deactivate(st.subs,
                         {i \in active : InName("prebirth", st.subs[i].messageset)})
        mc_name == get_messageset_short_name(
                       IF wa_mc THEN "whatsapp_momconnect_postbirth"
                                ELSE "momconnect_postbirth", "hw_full", 0)
        mc_sbm == get_messageset_schedule_sequence(mc_name, 0)
        rq1 == IF mc # {}
               THEN Append(st.reqs, SubReq(c.registrant_id, mc_sbm[1], mc_sbm[3],
                                           lang, mc_sbm[2]))
               ELSE st.reqs
        pm_name == get_messageset_short_name(
                       IF wa_pmtct THEN "whatsapp_pmtct_postbirth"
                                   ELSE "pmtct_postbirth", "patient", 0)
        pm_sbm == get_messageset_schedule_sequence(pm_name, 0)
        rq2 == IF pmtct # {}
               THEN Append(rq1, SubReq(c.registrant_id, pm_sbm[1], pm_sbm[3],
                                       lang, pm_sbm[2]))
               ELSE rq1
        r == IdIndex(c.registrant_id)
        ids == SetDetails(st.idents, r,
                          Put(st.idents[r].details, "last_baby_dob", "2016-01-01"))
    IN  Eff(ss, rq2, ids, c.data, "push_momconnect_babyswitch_to_jembi")

pmtct_loss_switch(c, st) ==
    LET sw == loss_switch(c, st)
    IN  IF sw[1] THEN [sw[2] EXCEPT !.task = "push_momconnect_babyloss_to_jembi"]
        ELSE sw[2]

pmtct_loss_optout(c, st) ==
    Eff(deactivate_all_except_nurseconnect(c, st.subs), st.reqs, st.idents, c.data,
        "push_pmtct_optout_to_jembi")

pmtct_nonloss_optout(c, st) ==
    Eff(IF c.data["reason"] = "unknown" THEN deactivate_all(c, st.subs)
        ELSE deactivate_pmtct(c, st.subs),
        st.reqs, st.idents, c.data, "push_pmtct_optout_to_jembi")

nurse_update_detail(c, st) == Eff(st.subs, st.reqs, st.idents, c.data, "none")

nurse_change_msisdn(c, st) == Eff(st.subs, st.reqs, st.idents, c.data, "none")

nurse_optout(c, st) ==
    Eff(deactivate_nurseconnect(c, st.subs), st.reqs, st.idents, c.data,
        "push_nurseconnect_optout_to_jembi")

momconnect_loss_switch(c, st) ==
    LET sw == loss_switch(c, st)
    IN  IF sw[1] THEN [sw[2] EXCEPT !.task = "push_momconnect_babyloss_to_jembi"]
        ELSE sw[2]

momconnect_loss_optout(c, st) ==
    Eff(deactivate_all_except_nurseconnect(c, st.subs), st.reqs, st.idents, c.data,
        "push_momconnect_optout_to_jembi")

momconnect_nonloss_optout(c, st) ==
    Eff(IF c.data["reason"] = "unknown" \/ c.data["reason"] = "sms_failure"
        THEN deactivate_all(c, st.subs)
        ELSE deactivate_all_except_nurseconnect(c, st.subs),
        st.reqs, st.idents, c.data, "push_momconnect_optout_to_jembi")

momconnect_change_language(c, st) ==
    LET language == c.data["language"]
        active == ActiveSubs(st.subs, c.registrant_id)
        ss == [i \in DOMAIN st.subs |->
                  IF i \in active /\ InName("momconnect", st.subs[i].messageset)
                  THEN [st.subs[i] EXCEPT !.lang = language]
                  ELSE st.subs[i]]
        r == IdIndex(c.registrant_id)
        details == st.idents[r].details
    IN  Eff(ss, st.reqs,
            SetDetails(st.idents, r, Put(details, "lang_code", language)),
            Put(c.data, "old_language", Get(details, "lang_code", "None")),
            "none")

\* the history of an address, were nothing appended to it
AppendNothing(a, v) == a

\* utils.append_or_create(dict, key, value) on a list field of an address
AppendFrom(a, v) == [a EXCEPT !.changes_from = Append(@, v)]

AppendTo(a, v) == [a EXCEPT !.changes_to = Append(@, v)]

momconnect_change_msisdn(c, st) ==
    LET new_msisdn == c.data["msisdn"]
        r == IdIndex(c.registrant_id)
        msisdns == st.idents[r].msisdn
        no_default == ~\E m \in DOMAIN msisdns : msisdns[m].has_default /\ msisdns[m].default
        m1 == [m \in DOMAIN msisdns |->
                  IF no_default THEN AppendFrom(msisdns[m], RecId) ELSE msisdns[m]]
        m2 == [m \in DOMAIN m1 |->
                  IF m1[m].has_default /\ m1[m].default
                  THEN AppendFrom([m1[m] EXCEPT !.default = FALSE], RecId)
                  ELSE m1[m]]
        m3 == IF new_msisdn \notin DOMAIN m2
              THEN Put(m2, new_msisdn, Addr(TRUE))
              ELSE [m2 EXCEPT ![new_msisdn].has_default = TRUE,
                              ![new_msisdn].default = TRUE]
        m4 == [m3 EXCEPT ![new_msisdn] = AppendTo(@, RecId)]
    IN  Eff(st.subs, st.reqs, [st.idents EXCEPT ![r].msisdn = m4],
            Pop(c.data, "msisdn"), "none")

\* the history, were the entry to replace it
RestartHistory(history, old_identification) == <<old_identification>>

\* utils.append_or_create(details, "identification_history", old_identification)
RecordIdentification(history, old_identification) ==
    Append(history, old_identification)

momconnect_change_identification(c, st) ==
    LET r == IdIndex(c.registrant_id)
        details == st.idents[r].details
        id_fields == {"sa_id_no", "passport_no", "passport_origin"}
        old_identification ==
            [k \in {"change"} \cup (id_fields \cap DOMAIN details) |->
                IF k = "change" THEN RecId ELSE details[k]]
        d1 == PopAll(details, id_fields)
        id_type == c.data["id_type"]
        data1 == Pop(c.data, "id_type")
        sa == id_type = "sa_id"
        d2 == IF sa THEN Put(d1, "sa_id_no", data1["sa_id_no"])
              ELSE Put(Put(d1, "passport_no", data1["passport_no"]),
                       "passport_origin", data1["passport_origin"])
        data2 == IF sa THEN Pop(data1, "sa_id_no")
                 ELSE PopAll(data1, {"passport_no", "passport_origin"})
    IN  Eff(st.subs, st.reqs,
            [st.idents EXCEPT ![r].details = d2,
                              ![r].identification_history =
                                  RecordIdentification(@, old_identification)],
            data2, "none")

\* the subscription a Change names in data["subscription"], and the message
\* set it names in data["messageset"]
SubNames == <<"sub1", "sub2", "sub3">>

SubIndex(name) == CHOOSE i \in DOMAIN SubNames : SubNames[i] = name

MessagesetNamed(short_name) ==
    IF short_name = "momconnect_postbirth.hw_full.1"
    THEN MsName(FALSE, "momconnect_postbirth", "hw_full", 1)
    ELSE MsName(FALSE, "momconnect_prebirth", "hw_full", 1)

admin_change_subscription(c, st) ==
    LET i == SubIndex(c.data["subscription"])
        sub == st.subs[i]
        new_messageset == MessagesetNamed(c.data["messageset"])
    IN  IF i \notin DOMAIN st.subs
        THEN Crashed(Eff(st.subs, st.reqs, st.idents, c.data, "none"))
        ELSE IF Has(c.data, "messageset")
        THEN Eff(Deactivate(st.subs, {i}),
                 Append(st.reqs,
                        SubReq(c.registrant_id, new_messageset, sub.next_sequence_number,
                               Get(c.data, "language", sub.lang),
                               ScheduleOf(new_messageset))),
                 st.idents, c.data, "none")
        ELSE IF Has(c.data, "language")
        THEN Eff([st.subs EXCEPT ![i].lang = c.data["language"]],
                 st.reqs, st.idents, c.data, "none")
        ELSE Eff(st.subs, st.reqs, st.idents, c.data, "none")

\* the message set looked up, were it the subscription's own
SameMessageset(ms) == ms

\* the message set of the other channel: "whatsapp_" + short_name, or the
\* short name with "^whatsapp_" removed
Counterpart(ms) == [ms EXCEPT !.wa = ~ms.wa]

\* the SubscriptionRequests switch_channel creates for the subscriptions at the
\* positions from i on
RECURSIVE SwitchRequests(_, _, _)
SwitchRequests(ss, which, i) ==
    IF i > Len(ss) THEN <<>>
    ELSE (IF i \in which
          THEN <<SubReq(ss[i].identity, Counterpart(ss[i].messageset),
                        ss[i].next_sequence_number, ss[i].lang, ss[i].schedule)>>
          ELSE <<>>)
         \o SwitchRequests(ss, which, i + 1)

switch_channel(c, st) ==
    LET channel == c.data["channel"]
        active == ActiveSubs(st.subs, c.registrant_id)
        moved == {i \in active :
                     \/ channel = "whatsapp" /\ ~InName("whatsapp", st.subs[i].messageset)
                     \/ channel = "sms" /\ InName("whatsapp", st.subs[i].messageset)}
    IN  Eff(Deactivate(st.subs, moved),
            st.reqs \o SwitchRequests(st.subs, moved, 1),
            st.idents,
            Put(c.data, "old_channel", IF channel = "sms" THEN "whatsapp" ELSE "sms"),
            "push_channel_switch_to_jembi")

ChangeActions ==
    {"baby_switch", "pmtct_loss_switch", "pmtct_loss_optout", "pmtct_nonloss_optout",
     "nurse_update_detail", "nurse_change_msisdn", "nurse_optout",
     "momconnect_loss_switch", "momconnect_loss_optout", "momconnect_nonloss_optout",
     "momconnect_change_language", "momconnect_change_msisdn",
     "momconnect_change_identification", "admin_change_subscription",
     "switch_channel"}

\* the dispatch table of ValidateImplement.run
ChangeHandler(c, st) ==
    CASE c.action = "baby_switch" -> baby_switch(c, st)
      [] c.action = "pmtct_loss_switch" -> pmtct_loss_switch(c, st)
      [] c.action = "pmtct_loss_optout" -> pmtct_loss_optout(c, st)
      [] c.action = "pmtct_nonloss_optout" -> pmtct_nonloss_optout(c, st)
      [] c.action = "nurse_update_detail" -> nurse_update_detail(c, st)
      [] c.action = "nurse_change_msisdn" -> nurse_change_msisdn(c, st)
      [] c.action = "nurse_optout" -> nurse_optout(c, st)
      [] c.action = "momconnect_loss_switch" -> momconnect_loss_switch(c, st)
      [] c.action = "momconnect_loss_optout" -> momconnect_loss_optout(c, st)
      [] c.action = "momconnect_nonloss_optout" -> momconnect_nonloss_optout(c, st)
      [] c.action = "momconnect_change_language" -> momconnect_change_language(c, st)
      [] c.action = "momconnect_change_msisdn" -> momconnect_change_msisdn(c, st)
      [] c.action = "momconnect_change_identification" ->
             momconnect_change_identification(c, st)
      [] c.action = "admin_change_subscription" -> admin_change_subscription(c, st)
      [] c.action = "switch_channel" -> switch_channel(c, st)

-----------------------------------------------------------------------------
(* registrations/tasks.py: ValidateSubscribe, the validation checks *)

\* one check of a field: missing, else invalid, else nothing
FieldCheck(r, key, valid, missing, invalid) ==
    IF key \notin DataFields(r) THEN <<missing>>
    ELSE IF ~valid THEN <<invalid>>
    ELSE <<>>

\* the check of the language, were it to accept data without a language
AcceptsNoLanguage(r) ==
    IF Has(r.data, "language") /\ ~is_valid_lang(r.data["language"])
    THEN <<"Language not a valid option">>
    ELSE <<>>

check_lang(r) ==
    FieldCheck(r, "language", is_valid_lang(r.data["language"]),
               "Language is missing from data", "Language not a valid option")

check_mom_dob(r) ==
    FieldCheck(r, "mom_dob", is_valid_date(r.data["mom_dob"]),
               "Mother DOB missing", "Mother DOB invalid")

\* check_edd, were it to report nothing
ReportsNoEdd(r) == <<>>

check_edd(r) ==
    FieldCheck(r, "edd", is_valid_edd(r.data["edd"]),
               "Estimated Due Date missing", "Estimated Due Date invalid")

check_baby_dob(r) ==
    IF "baby_dob" \notin DataFields(r) THEN <<"Baby Date of Birth missing">>
    ELSE IF ~is_valid_date(r.data["baby_dob"]) THEN <<"Baby Date of Birth invalid">>
    ELSE IF get_baby_age(r.data["baby_dob"]) < 0
         THEN <<"Baby Date of Birth cannot be in the future">>
    ELSE <<>>

check_operator_id(r) ==
    FieldCheck(r, "operator_id", is_valid_uuid(r.data["operator_id"]),
               "Operator ID missing", "Operator ID invalid")

check_msisdn_registrant(r) ==
    FieldCheck(r, "msisdn_registrant", is_valid_msisdn(r.data["msisdn_registrant"]),
               "MSISDN of Registrant missing", "MSISDN of Registrant invalid")

check_msisdn_device(r) ==
    FieldCheck(r, "msisdn_device", is_valid_msisdn(r.data["msisdn_device"]),
               "MSISDN of device missing", "MSISDN of device invalid")

check_faccode(r) ==
    FieldCheck(r, "faccode", is_valid_faccode(r.data["faccode"]),
               "Facility (clinic) code missing", "Facility code invalid")

check_consent(r) ==
    FieldCheck(r, "consent", r.data["consent"] = "true",
               "Consent is missing", "Cannot continue without consent")

check_sa_id_no(r) ==
    FieldCheck(r, "sa_id_no", is_valid_sa_id_no(r.data["sa_id_no"]),
               "SA ID number missing", "SA ID number invalid")

check_passport_no(r) ==
    FieldCheck(r, "passport_no", is_valid_passport_no(r.data["passport_no"]),
               "Passport number missing", "Passport number invalid")

check_passport_origin(r) ==
    FieldCheck(r, "passport_origin", is_valid_passport_origin(r.data["passport_origin"]),
               "Passport origin missing", "Passport origin invalid")

check_id(r) ==
    IF "id_type" \notin DataFields(r) THEN <<"ID type missing">>
    ELSE IF ~is_valid_id_type(r.data["id_type"])
         THEN <<"ID type should be one of ['sa_id', 'passport', 'none']">>
    ELSE IF r.data["id_type"] = "sa_id" THEN check_sa_id_no(r) \o check_mom_dob(r)
    ELSE IF r.data["id_type"] = "passport"
         THEN check_passport_no(r) \o check_passport_origin(r)
    ELSE IF r.data["id_type"] = "none" THEN check_mom_dob(r)
    ELSE <<>>

RegTypes ==
    {"momconnect_prebirth", "momconnect_postbirth", "whatsapp_prebirth",
     "nurseconnect", "whatsapp_nurseconnect", "pmtct_prebirth",
     "whatsapp_pmtct_prebirth", "pmtct_postbirth", "whatsapp_pmtct_postbirth",
     "loss_general", "jembi_momconnect"}

\* substring tests on reg_type
InRegType(part, t) ==
    CASE part = "pmtct_prebirth" -> t \in {"pmtct_prebirth", "whatsapp_pmtct_prebirth"}
      [] part = "pmtct_postbirth" -> t \in {"pmtct_postbirth", "whatsapp_pmtct_postbirth"}
      [] part = "nurseconnect" -> t \in {"nurseconnect", "whatsapp_nurseconnect"}
      [] part = "pmtct" -> t \in {"pmtct_prebirth", "whatsapp_pmtct_prebirth",
                                  "pmtct_postbirth", "whatsapp_pmtct_postbirth"}
      [] part = "prebirth" -> t \in {"momconnect_prebirth", "whatsapp_prebirth",
                                     "pmtct_prebirth", "whatsapp_pmtct_prebirth"}
      [] part = "postbirth" -> t \in {"momconnect_postbirth", "pmtct_postbirth",
                                      "whatsapp_pmtct_postbirth"}
      [] part = "whatsapp" -> t \in {"whatsapp_prebirth", "whatsapp_nurseconnect",
                                     "whatsapp_pmtct_prebirth",
                                     "whatsapp_pmtct_postbirth"}
      [] OTHER -> FALSE

\* the errors of the branch of validate that reg_type selects
RegTypeErrors(r) ==
    IF InRegType("pmtct_prebirth", r.action)
    THEN check_lang(r) \o check_mom_dob(r) \o check_edd(r) \o check_operator_id(r)
    ELSE IF InRegType("pmtct_postbirth", r.action)
    THEN check_lang(r) \o check_mom_dob(r) \o check_baby_dob(r) \o check_operator_id(r)
    ELSE IF InRegType("nurseconnect", r.action)
    THEN check_faccode(r) \o check_operator_id(r) \o check_msisdn_registrant(r)
         \o check_msisdn_device(r) \o check_lang(r)
    ELSE IF r.action \in {"momconnect_prebirth", "whatsapp_prebirth"}
    THEN check_operator_id(r) \o check_msisdn_registrant(r) \o check_msisdn_device(r)
         \o check_lang(r) \o check_consent(r)
         \o (IF r.authority \in {"hw_full", "hw_partial"} THEN check_id(r) ELSE <<>>)
         \o (IF r.authority = "hw_full" THEN check_edd(r) \o check_faccode(r) ELSE <<>>)
    ELSE IF r.action = "momconnect_postbirth"
    THEN <<"Momconnect postbirth not yet supported">>
    ELSE IF r.action = "loss_general"
    THEN <<"Loss general not yet supported">>
    ELSE <<>>

RegistrationValidationErrors(r) == RegistrantErrors(r) \o RegTypeErrors(r)

-----------------------------------------------------------------------------
(* validate of both tasks: the record as saved, validate's result being      *)
(* whether there was no error                                                *)

ValidationErrors(r) ==
    IF r.kind = "change" THEN ChangeValidationErrors(r)
    ELSE RegistrationValidationErrors(r)

\* validate, were it to mark the record validated whatever the checks say
validate_marking_always(r) ==
    [r EXCEPT !.validated = TRUE, !.invalid = ValidationErrors(r)]

validate(r) ==
    LET validation_errors == ValidationErrors(r)
    IN  IF Len(validation_errors) = 0
        THEN [r EXCEPT !.validated = TRUE]
        ELSE [r EXCEPT !.invalid = validation_errors]

Validates(r) == Len(ValidationErrors(r)) = 0

\* data of a record whose JSON column is null: Python's None, which has no keys()
NoneData == [x \in {"None"} |-> "None"]

\* `data_fields = record.data.keys()` raises AttributeError on None, before
\* any check is made and before anything is saved
validate_raises(r) == r.data = NoneData

-----------------------------------------------------------------------------
(* registrations/tasks.py: ValidateSubscribe, what run does after validate *)

\* utils.get_mom_age(today, mom_dob), today being 2016-01-01
get_mom_age(mom_dob) ==
    CASE mom_dob = "1999-01-27" -> 16
      [] mom_dob = "1982-03-15" -> 33
      [] OTHER -> 0

get_risk_status(reg_type, mom_dob, edd) ==
    IF InRegType("postbirth", reg_type) THEN "high"
    ELSE IF get_mom_age(mom_dob) < 18 THEN "high"
    ELSE IF get_pregnancy_week(edd) >= 20 THEN "high"
    ELSE "normal"

\* the weeks create_subscriptionrequests computes from data["edd"]
WeeksFromEdd(r) ==
    \/ r.action \in {"momconnect_prebirth", "whatsapp_prebirth"}
       /\ r.authority \notin {"hw_partial", "patient"}
    \/ InRegType("pmtct_prebirth", r.action)

create_subscriptionrequests(r, st) ==
    LET weeks == IF WeeksFromEdd(r) THEN get_pregnancy_week(r.data["edd"])
                 ELSE IF InRegType("pmtct_postbirth", r.action)
                 THEN get_baby_age(r.data["baby_dob"])
                 ELSE 1
        short_name == get_messageset_short_name(r.action, r.authority, weeks)
        sbm == get_messageset_schedule_sequence(short_name, weeks)
    IN  IF \/ WeeksFromEdd(r) /\ ~Has(r.data, "edd")
           \/ ~WeeksFromEdd(r) /\ InRegType("pmtct_postbirth", r.action)
              /\ ~Has(r.data, "baby_dob")
           \/ ~Has(r.data, "language")
        THEN Crashed(Eff(st.subs, st.reqs, st.idents, r.data, "none"))
        ELSE Eff(st.subs,
                 Append(st.reqs, SubReq(r.registrant_id, sbm[1], sbm[3],
                                        r.data["language"], sbm[2])),
                 st.idents, r.data, "none")

create_popi_subscriptionrequest(r, st) ==
    LET short_name == get_messageset_short_name("popi", r.authority, 0)
        sbm == get_messageset_schedule_sequence(short_name, 0)
    IN  IF ~InRegType("prebirth", r.action) \/ r.authority \notin {"hw_partial", "hw_full"}
        THEN Eff(st.subs, st.reqs, st.idents, r.data, "none")
        ELSE Eff(st.subs,
                 Append(st.reqs, SubReq(r.registrant_id, sbm[1], sbm[3],
                                        r.data["language"], sbm[2])),
                 st.idents, r.data, "none")

\* details["pmtct"] = {"risk_status": risk}: the key holds the risk status
set_risk_status(r, st) ==
    LET i == IdIndex(r.registrant_id)
    IN  IF ~Has(r.data, "mom_dob") \/ ~Has(r.data, "edd") \/ i = 0 \/ i > Len(st.idents)
        THEN Crashed(Eff(st.subs, st.reqs, st.idents, r.data, "none"))
        ELSE Eff(st.subs, st.reqs,
                 SetDetails(st.idents, i,
                            Put(st.idents[i].details, "pmtct",
                                get_risk_status(r.action, r.data["mom_dob"],
                                                r.data["edd"]))),
                 r.data, "none")

get_jembi_task_for_registration(r) ==
    IF InRegType("nurseconnect", r.action) THEN "push_nurse_registration_to_jembi"
    ELSE IF InRegType("pmtct", r.action) THEN "push_pmtct_registration_to_jembi"
    ELSE "push_registration_to_jembi"

\* the effect as a state of the services
AsState(e) == [subs |-> e.subs, reqs |-> e.reqs, idents |-> e.idents]

\* the body of "if reg_validates:" up to the choice of the submission task
RegistrationHandler(r, st) ==
    LET e1 == create_subscriptionrequests(r, st)
        e2 == create_popi_subscriptionrequest(r, AsState(e1))
        e3 == IF InRegType("pmtct", r.action) THEN set_risk_status(r, AsState(e2))
              ELSE e2
    IN  IF e1.crash THEN e1
        ELSE IF e3.crash THEN e3
        ELSE [e3 EXCEPT !.task = get_jembi_task_for_registration(r)]

-----------------------------------------------------------------------------
(* The run tasks.  A state s of the pipeline is the record [rec, subs, reqs, *)
(* idents, chains, hist, hook]; a run maps the state it finds to the state   *)
(* it leaves.                                                                *)

\* chain(submit_task, remove_personally_identifiable_fields.si(pk)).delay():
\* the chain waits at its first task
NewChain(task) ==
    [task |-> task, stage |-> "submit", retries |-> 0, attempts |-> 0, last |-> -1,
     countdowns |-> <<>>, payload_logged |-> FALSE, problem_logged |-> FALSE,
     returned |-> FALSE, raised |-> FALSE, json_type |-> 0, registration |-> "n/a"]

Services(s) == [subs |-> s.subs, reqs |-> s.reqs, idents |-> s.idents]

\* the state a handler's effect e leaves, the record being r
AfterHandler(s, r, e, task_name) ==
    [s EXCEPT !.rec = [r EXCEPT !.data = e.data],
              !.subs = e.subs, !.reqs = e.reqs, !.idents = e.idents,
              !.chains = IF e.task = "none" THEN @ ELSE Append(@, NewChain(e.task)),
              !.hist = [@ EXCEPT !.last = IF e.crash THEN "crashed" ELSE "executed",
                                 !.task = task_name,
                                 !.executed = @ + 1,
                                 !.passed = TRUE]]

AfterInvalid(s, task_name) ==
    [s EXCEPT !.rec = validate(s.rec),
              !.hist = [@ EXCEPT !.last = "invalid", !.task = task_name]]

\* ValidateImplement.run
ValidateImplement_run(s) ==
    LET change == s.rec
        change_validates == Validates(change)
        saved == validate(change)
    IN  IF change_validates
        THEN AfterHandler(s, saved, ChangeHandler(saved, Services(s)),
                          "validate_implement")
        ELSE AfterInvalid(s, "validate_implement")

\* ValidateSubscribe.run
ValidateSubscribe_run(s) ==
    LET registration == s.rec
        reg_validates == Validates(registration)
        saved == validate(registration)
    IN  IF registration.action = "jembi_momconnect"
        THEN [s EXCEPT !.hist = [@ EXCEPT !.last = "skipped",
                                          !.task = "validate_subscribe"]]
        ELSE IF reg_validates
        THEN AfterHandler(s, saved, RegistrationHandler(saved, Services(s)),
                          "validate_subscribe")
        ELSE AfterInvalid(s, "validate_subscribe")

-----------------------------------------------------------------------------
(* registrations/tasks.py: ValidateSubscribeJembiAppRegistration *)

IsDefault(a) == a.has_default /\ a.default

is_primary_address(address, identity) ==
    \A a \in DOMAIN identity.msisdn : a = address \/ ~IsDefault(identity.msisdn[a])

\* the lookup, were it to find no identity
FindsNoIdentity(ids, address) == {}

\* is_client.get_identity_by_address("msisdn", address): positions in ids
get_identity_by_address(ids, address) ==
    {i \in DOMAIN ids : address \in DOMAIN ids[i].msisdn}

FirstOf(S) == CHOOSE i \in S : \A j \in S : i <= j

\* an identity, were the address not marked default
BareIdentityFor(address) == Identity(EmptyMap, [a \in {address} |-> BareAddr])

\* an identity, were it created with no address
IdentityWithoutAddress(address) == Identity(EmptyMap, [a \in {} |-> BareAddr])

\* the identity get_or_update_identity_by_address creates for an address
PrimaryIdentityFor(address) ==
    Identity(Put(EmptyMap, "default_addr_type", "msisdn"),
             [a \in {address} |-> Addr(TRUE)])

\* filter(partial(self.is_primary_address, 'msisdn', address), results)
PrimaryIdentities(ids, address) ==
    {i \in get_identity_by_address(ids, address) : is_primary_address(address, ids[i])}

\* <<identities afterwards, position of the identity returned>>
get_or_update_identity_by_address(ids, address) ==
    LET identities == PrimaryIdentities(ids, address)
    IN  IF identities # {} THEN <<ids, FirstOf(identities)>>
        ELSE <<Append(ids, PrimaryIdentityFor(address)), Len(ids) + 1>>

is_opted_out(identity, address) == identity.msisdn[address].optedout

\* is_client.create_optin: the Identity Service opts the address back in
opt_in(ids, i, address) == [ids EXCEPT ![i].msisdn[address].optedout = FALSE]

\* re.search(r'prebirth\.hw_full', short_name) over the active subscriptions
is_identity_subscribed(ss, identity_id) ==
    \E i \in ActiveSubs(ss, identity_id) :
        InName("prebirth", ss[i].messageset) /\ ss[i].messageset.auth = "hw_full"

NewHook == [stage |-> "queued", retries |-> 0, countdown |-> 0, last |-> -1]

\* send_webhook: http_request_with_retries.delay(...) when a callback_url is given
send_webhook(s) ==
    IF Has(s.rec.data, "callback_url")
    THEN [s EXCEPT !.hook = Append(@, NewHook)]
    ELSE s

fail_validation(s, r, ids, reason) ==
    send_webhook([s EXCEPT !.rec = [r EXCEPT !.invalid = <<reason>>],
                           !.idents = ids,
                           !.hist = [@ EXCEPT !.last = "invalid",
                                              !.task = "validate_subscribe_jembi"]])

\* on_failure for an exception that is no HTTP error: no retry, fail_error on
\* the registration as last saved
fail_error(s, type) ==
    send_webhook([s EXCEPT !.rec.data = Put(@, "error_data", type),
                           !.hist = [@ EXCEPT !.last = "crashed",
                                              !.task = "validate_subscribe_jembi"]])

create_pmtct_registration_raises(r) ==
    ~Has(r.data, "language") \/ ~Has(r.data, "mom_dob") \/ ~Has(r.data, "edd")

\* ValidateSubscribeJembiAppRegistration.run; registered and recognised are
\* the answers of the WhatsApp check and of the facility check
ValidateSubscribeJembiAppRegistration_run(s, registered, recognised) ==
    LET registration == s.rec
        msisdn_registrant == registration.data["msisdn_registrant"]
        g1 == get_or_update_identity_by_address(s.idents, msisdn_registrant)
        g2 == get_or_update_identity_by_address(g1[1], registration.data["msisdn_device"])
        registrant == g1[2]
        ids == g2[1]
        r1 == [registration EXCEPT !.registrant_id = IdNames[registrant]]
        opted_out == is_opted_out(ids[registrant], msisdn_registrant)
        ids2 == IF opted_out THEN opt_in(ids, registrant, msisdn_registrant) ELSE ids
        r2 == [r1 EXCEPT
                 !.data = Put(@, "registered_on_whatsapp",
                              IF registered THEN "true" ELSE "false"),
                 !.action = IF r1.data["mom_whatsapp"] = "true" /\ registered
                            THEN "whatsapp_prebirth" ELSE "momconnect_prebirth"]
        r3 == [r2 EXCEPT !.validated = TRUE]
        s3 == [s EXCEPT !.rec = r3, !.idents = ids2,
                        !.hist = [@ EXCEPT !.executed = @ + 1]]
        e1 == create_subscriptionrequests(r3, Services(s3))
        e2 == create_popi_subscriptionrequest(r3, AsState(e1))
        task == get_jembi_task_for_registration(r3)
        s4 == [s3 EXCEPT !.reqs = e2.reqs, !.chains = Append(@, NewChain(task))]
    IN  IF ~({"msisdn_registrant", "msisdn_device"} \subseteq DOMAIN registration.data)
        THEN fail_error(s, "KeyError")
        ELSE IF is_identity_subscribed(s.subs, r1.registrant_id)
        THEN fail_validation(s, r1, ids,
                 "mom_msisdn: Number is already subscribed to MomConnect messaging")
        ELSE IF opted_out /\ r1.data["mom_opt_in"] # "true"
        THEN fail_validation(s, r1, ids,
                 "mom_opt_in: Mother has previously opted out and has not chosen to opt back in again")
        ELSE IF ~recognised
        THEN fail_validation(s, r2, ids2, "clinic_code: Not a recognised clinic code")
        ELSE IF e1.crash THEN fail_error(s3, "KeyError")
        ELSE IF r3.data["mom_pmtct"] = "true" /\ create_pmtct_registration_raises(r3)
        THEN fail_error(s4, "KeyError")
        ELSE send_webhook(
                 [s4 EXCEPT !.hist = [@ EXCEPT
                                !.last = "executed",
                                !.task = "validate_subscribe_jembi",
                                !.spawned = IF r3.data["mom_pmtct"] = "true"
                                            THEN @ + 1 ELSE @]])

-----------------------------------------------------------------------------
(* The submission tasks: BasePushOptoutToJembi.run (changes/tasks.py) and    *)
(* BasePushRegistrationToJembi.run (registrations/tasks.py)                  *)

\* Task.max_retries and Task.default_retry_delay (seconds) of a task that sets
\* neither, as self.retry(exc=e) uses them
task_max_retries == 3

default_retry_delay == 180

\* the answers to a POST: an HTTP status, or 0 for no answer (the connection
\* failed)
ConnectionFailure == 0

Responses == {200, 400, 500, 503, 599, ConnectionFailure}

\* result.raise_for_status() raises HTTPError
IsHTTPError(resp) == 400 <= resp /\ resp < 600

\* the retry test, were it to take in the 4xx statuses
ShouldRetryFrom400(status) == 400 <= status /\ status < 599

\* "if 500 < e.response.status_code < 599"
ShouldRetry(status) == 500 < status /\ status < 599

\* the retries, were the task to allow one fewer
OneRetryFewer(retries) == retries < task_max_retries - 1

\* self.retry(exc=e) re-queues the task while retries are left, and raises
\* exc when there is none
RetriesLeft(retries) == retries < task_max_retries

\* the try block of both run methods, on the chain ch whose first task is the
\* submission, the POST being answered resp
PostToJembi(ch, resp) ==
    LET sent == [ch EXCEPT !.attempts = @ + 1, !.last = resp]
    IN  IF resp = ConnectionFailure
        THEN [sent EXCEPT !.problem_logged = TRUE, !.returned = TRUE, !.stage = "anon"]
        ELSE IF IsHTTPError(resp)
        THEN IF ShouldRetry(resp)
             THEN IF RetriesLeft(ch.retries)
                  THEN [sent EXCEPT !.retries = @ + 1,
                               !.countdowns = Append(@, default_retry_delay)]
                  ELSE [sent EXCEPT !.stage = "failed"]
             ELSE [sent EXCEPT !.payload_logged = TRUE, !.stage = "failed"]
        ELSE [sent EXCEPT !.returned = TRUE, !.stage = "anon"]

\* an exception outside the try block fails the task and, with it, the chain
Raised(ch) == [ch EXCEPT !.stage = "failed", !.raised = TRUE]

\* BasePushRegistrationToJembi.get_authority_from_source(source)
get_authority_from_source(source_name) ==
    CASE source_name = "EXTERNAL CHW 1" -> "chw"
      [] source_name = "EXTERNAL CLINIC 1" -> "clinic"
      [] source_name = "PUBLIC USSD APP" -> "personal"
      [] source_name = "OPTOUT USSD APP" -> "optout"
      [] source_name = "CLINIC USSD APP" -> "clinic"
      [] source_name = "CHW USSD APP" -> "chw"
      [] source_name = "NURSE USSD APP" -> "nurse"
      [] source_name = "PMTCT USSD APP" -> "pmtct"
      [] OTHER -> "None"

\* get_patient_id raises on None + str
get_patient_id_raises(r, msisdn_required) ==
    LET id_type == Get(r.data, "id_type", "None")
    IN  IF id_type = "sa_id" THEN ~Has(r.data, "sa_id_no")
        ELSE IF id_type = "passport"
             THEN ~Has(r.data, "passport_no") \/ ~Has(r.data, "passport_origin")
        ELSE msisdn_required /\ ~Has(r.data, "msisdn_registrant")

\* get_software_type saves swt = 7 on a whatsapp registration that has none
get_software_type(r) ==
    IF ~Has(r.data, "swt") /\ InRegType("whatsapp", r.action)
    THEN [r EXCEPT !.data = Put(@, "swt", "7")]
    ELSE r

\* whether build_jembi_json of the registration's task raises
build_jembi_json_raises(task, r) ==
    LET authority == get_authority_from_source(r.source)
        momconnect ==
            \/ get_patient_id_raises(r, FALSE)
            \/ authority \notin {"personal", "chw", "clinic", "optout", "pmtct"}
            \/ ~Has(r.data, "language")
            \/ authority = "clinic" /\ ~Has(r.data, "edd")
    IN  CASE task = "push_registration_to_jembi" -> momconnect
          [] task = "push_pmtct_registration_to_jembi" ->
                 momconnect \/ ~Has(r.data, "mom_dob") \/ ~Has(r.data, "edd")
          [] task = "push_nurse_registration_to_jembi" ->
                 \/ ~Has(r.data, "msisdn_device")
                 \/ ~Has(r.data, "msisdn_registrant")
                 \/ ~Has(r.data, "faccode")
                 \/ get_patient_id_raises(r, TRUE)
          [] OTHER -> FALSE

\* BasePushRegistrationToJembi.run on chain i: <<record, chain>> afterwards
BasePushRegistrationToJembi_run(s, i, resp) ==
    LET registration == s.rec
        ch == s.chains[i]
        authority == get_authority_from_source(registration.source)
        saved == get_software_type(registration)
    IN  IF authority = "None"
        THEN <<registration, [ch EXCEPT !.returned = TRUE, !.stage = "anon"]>>
        ELSE IF build_jembi_json_raises(ch.task, registration)
        THEN <<saved, Raised(ch)>>
        ELSE <<saved, PostToJembi(ch, resp)>>

\* the "type" of the JSON document build_jembi_json of a change's submission
\* task builds
JembiType(task) ==
    CASE task = "push_momconnect_optout_to_jembi" -> 4
      [] task = "push_pmtct_optout_to_jembi" -> 10
      [] task = "push_momconnect_babyloss_to_jembi" -> 5
      [] task = "push_momconnect_babyswitch_to_jembi" -> 11
      [] task = "push_nurseconnect_optout_to_jembi" -> 8
      [] task = "push_channel_switch_to_jembi" -> 12
      [] OTHER -> 0

\* BasePushOptoutToJembi.run on chain i; found: whether get_nurse_registration
\* finds a registration of the registrant (reg.data raises on None); the
\* chain keeps what the last lookup of the registration gave
BasePushOptoutToJembi_run(s, i, resp, found) ==
    LET ch == s.chains[i]
        looked == [ch EXCEPT !.registration = IF found THEN "found" ELSE "None"]
    IN  IF ch.task = "push_nurseconnect_optout_to_jembi"
        THEN IF ~found
             THEN Raised(looked)
             ELSE PostToJembi([looked EXCEPT !.json_type = JembiType(ch.task)], resp)
        ELSE PostToJembi([ch EXCEPT !.json_type = JembiType(ch.task)], resp)

-----------------------------------------------------------------------------
(* remove_personally_identifiable_fields of both modules *)

PiiFields(kind) ==
    IF kind = "change"
    THEN {"id_type", "dob", "passport_no", "passport_origin", "sa_id_no",
          "persal_no", "sanc_no"}
    ELSE {"id_type", "mom_dob", "passport_no", "passport_origin", "sa_id_no",
          "language", "consent", "mom_given_name", "mom_family_name", "mom_email"}

MsisdnFields(kind) ==
    IF kind = "change" THEN {"msisdn_device", "msisdn_new", "msisdn_old"}
    ELSE {"msisdn_device", "msisdn_registrant"}

\* the key, were 'msisdn' not replaced in it
SameField(field) == field

\* field.replace('msisdn', 'uuid')
UuidField(field) ==
    CASE field = "msisdn_device" -> "uuid_device"
      [] field = "msisdn_new" -> "uuid_new"
      [] field = "msisdn_old" -> "uuid_old"
      [] field = "msisdn_registrant" -> "uuid_registrant"

\* the key, were no field renamed
SameKey(kind, field) == field

\* the key a field is stored under in the identity's details
DetailsKey(kind, field) ==
    IF kind # "change" /\ field = "language" THEN "lang_code" ELSE field

\* the ids of the identities held
IdNamesOf(ids) == {IdNames[i] : i \in DOMAIN ids}

\* the keys of data that hold personal information
PiiKeys(r) == (PiiFields(r.kind) \cup MsisdnFields(r.kind)) \cap DOMAIN r.data

\* the loop over msisdn_fields, taken in the order given: <<data, identities>>
RECURSIVE ReplaceMsisdns(_, _, _)
ReplaceMsisdns(data, ids, order) ==
    IF order = <<>> THEN <<data, ids>>
    ELSE LET field == Head(order)
             msisdn == data[field]
             identities == get_identity_by_address(ids, msisdn)
             ids1 == IF identities # {} THEN ids
                     ELSE Append(ids, Identity(EmptyMap, [a \in {msisdn} |-> BareAddr]))
             field_identity == IF identities # {} THEN FirstOf(identities)
                               ELSE Len(ids) + 1
         IN  ReplaceMsisdns(Put(Pop(data, field), UuidField(field), IdNames[field_identity]),
                            ids1, Tail(order))

\* the orders in which a set of fields can be iterated
Orders(S) ==
    {o \in [1..Cardinality(S) -> S] : \A i, j \in DOMAIN o : i # j => o[i] # o[j]}

remove_pii_raises(r, ids) ==
    /\ PiiFields(r.kind) \cap DOMAIN r.data # {}
    /\ IdIndex(r.registrant_id) \notin DOMAIN ids

\* remove_personally_identifiable_fields: <<record, identities>> afterwards
remove_personally_identifiable_fields(r, ids, order) ==
    LET fields == PiiFields(r.kind) \cap DOMAIN r.data
        i == IdIndex(r.registrant_id)
        moved == [k \in (DOMAIN ids[i].details) \cup {DetailsKey(r.kind, f) : f \in fields} |->
                    IF \E f \in fields : DetailsKey(r.kind, f) = k
                    THEN r.data[CHOOSE f \in fields : DetailsKey(r.kind, f) = k]
                    ELSE ids[i].details[k]]
        ids1 == IF fields # {} THEN SetDetails(ids, i, moved) ELSE ids
        res == ReplaceMsisdns(PopAll(r.data, fields), ids1, order)
    IN  <<[r EXCEPT !.data = res[1]], res[2]>>

\* field.replace('uuid', 'msisdn')
MsisdnField(field) ==
    CASE field = "uuid_device" -> "msisdn_device"
      [] field = "uuid_new" -> "msisdn_new"
      [] field = "uuid_old" -> "msisdn_old"
      [] field = "uuid_registrant" -> "msisdn_registrant"

UuidFields(kind) == {UuidField(f) : f \in MsisdnFields(kind)}

\* the keys of details the fields of a kind are read back from
StoredFields(kind) == {DetailsKey(kind, f) : f \in PiiFields(kind)}

\* the key of data a key of details is read back to
DataKey(kind, k) == IF kind # "change" /\ k = "lang_code" THEN "language" ELSE k

\* utils.get_identity_msisdn(identity_id): the values it can return; the
\* default address if there is one, else an address not opted out, else None
get_identity_msisdn(ids, identity_id) ==
    IF IdIndex(identity_id) \notin DOMAIN ids THEN {"None"}
    ELSE LET msisdns == ids[IdIndex(identity_id)].msisdn
             defaults == {a \in DOMAIN msisdns : IsDefault(msisdns[a])}
             usable == {a \in DOMAIN msisdns : ~msisdns[a].optedout}
         IN  IF defaults # {} THEN defaults
             ELSE IF usable # {} THEN usable
             ELSE {"None"}

\* add_personally_identifiable_fields(registration): the record returned,
\* msisdn_of[field] being what get_identity_msisdn answers for a uuid field
add_personally_identifiable_fields(r, ids, msisdn_of) ==
    IF IdIndex(r.registrant_id) \notin DOMAIN ids THEN r
    ELSE LET details == ids[IdIndex(r.registrant_id)].details
             fields == (StoredFields(r.kind) \cap DOMAIN details) \ DOMAIN r.data
             added == {DataKey(r.kind, f) : f \in fields}
             data1 == [k \in (DOMAIN r.data) \cup added |->
                          IF k \in added THEN details[DetailsKey(r.kind, k)]
                          ELSE r.data[k]]
             uuid_fields == UuidFields(r.kind) \cap DOMAIN r.data
             found == {MsisdnField(f) : f \in {u \in uuid_fields : msisdn_of[u] # "None"}}
             data2 == [k \in (DOMAIN data1) \cup found |->
                          IF k \in found THEN msisdn_of[UuidField(k)] ELSE data1[k]]
         IN  [r EXCEPT !.data = data2]

\* restore_personally_identifiable_fields(change): the same over the fields
\* of a Change
restore_personally_identifiable_fields(change, ids, msisdn_of) ==
    add_personally_identifiable_fields(change, ids, msisdn_of)

-----------------------------------------------------------------------------
(* HTTPRetryMixin (registrations/tasks.py) and HTTPRequestWithRetries, the   *)
(* task that delivers a webhook                                              *)

max_retries == 10

delay_factor == 1

\* jitter_percentage = 0.25, in hundredths
jitter_percentage == 25

\* random.random() is j / JitterSteps for a j in 0 .. JitterSteps - 1
JitterSteps == 4

\* delays are kept in units of 1 / DelayUnit seconds
DelayUnit == 100 * JitterSteps

\* the delay, were it to grow linearly with the retries
LinearDelay(retries, j) ==
    (retries + 1) * delay_factor * (DelayUnit + j * jitter_percentage)

\* delay = (2 ** retries) * delay_factor; delay *= 1 + (random() * jitter_percentage)
RetryDelay(retries, j) ==
    (2 ^ retries) * delay_factor * (DelayUnit + j * jitter_percentage)

\* HTTPRetryMixin.on_failure: whether the failed task is retried
MixinRetries(retries, resp) ==
    \/ IsHTTPError(resp) /\ retries < max_retries /\ 500 <= resp /\ resp < 600
    \/ resp = ConnectionFailure /\ retries < max_retries

\* one execution of http_request_with_retries, answered resp, random() = j/JitterSteps
HTTPRequestWithRetries_run(h, resp, j) ==
    IF resp # ConnectionFailure /\ ~IsHTTPError(resp)
    THEN [h EXCEPT !.stage = "done", !.last = resp]
    ELSE IF MixinRetries(h.retries, resp)
    THEN [h EXCEPT !.retries = @ + 1, !.last = resp,
                   !.countdown = RetryDelay(h.retries, j)]
    ELSE [h EXCEPT !.stage = "failed", !.last = resp]

-----------------------------------------------------------------------------
(* The records and the services' states the pipeline is started on *)

D1(k, v) == [x \in {k} |-> v]

Registrant == "id1"

\* what the Subscription and Identity Services hold before the record arrives
Worlds ==
    {[idents |-> <<Identity(D1("lang_code", "eng_ZA"),
                            [a \in {"+27821110000"} |-> Addr(TRUE)])>>,
      subs |-> <<Sub(Registrant, MsName(FALSE, "momconnect_prebirth", "hw_full", 1),
                     "eng_ZA", 5),
                 Sub(Registrant, MsName(FALSE, "pmtct_prebirth", "patient", 1),
                     "eng_ZA", 3)>>],
     [idents |-> <<Identity(EmptyMap, [a \in {"+27821110000"} |-> Addr(TRUE)])>>,
      subs |-> <<Sub(Registrant, MsName(TRUE, "momconnect_prebirth", "patient", 1),
                     "zul_ZA", 2),
                 Sub(Registrant, MsName(FALSE, "nurseconnect", "hw_full", 1),
                     "zul_ZA", 1)>>],
     [idents |-> <<Identity(D1("lang_code", "zul_ZA"),
                            [a \in {"+27821110000"} |->
                                [Addr(TRUE) EXCEPT !.optedout = TRUE]])>>,
      subs |-> <<>>]}

Reasons(S) == {D1("reason", v) : v \in S} \cup {EmptyMap}

SaId == Put(D1("id_type", "sa_id"), "sa_id_no", "8108015001051")

Passport ==
    Put(Put(D1("id_type", "passport"), "passport_no", "abc1234"), "passport_origin", "na")

\* change.data as submitted, by action
ChangeData(a) ==
    CASE a = "baby_switch" -> {EmptyMap}
      [] a \in {"pmtct_loss_switch", "pmtct_loss_optout", "momconnect_loss_switch",
                "momconnect_loss_optout"} -> Reasons({"miscarriage", "babyloss", "other"})
      [] a = "pmtct_nonloss_optout" -> Reasons({"not_hiv_pos", "unknown", "stillbirth"})
      [] a = "momconnect_nonloss_optout" ->
             Reasons({"not_useful", "sms_failure", "unknown", "stillbirth"})
             \cup {Put(Put(D1("reason", "other"), "msisdn_device", "+27821112222"),
                       "sa_id_no", "8108015001051")}
      [] a = "nurse_optout" -> Reasons({"job_change", "babyloss"})
      [] a = "nurse_update_detail" ->
             {EmptyMap, D1("faccode", "123456"), D1("faccode", "99"),
              Put(SaId, "dob", "1982-03-15"), SaId}
      [] a = "nurse_change_msisdn" ->
             {Put(Put(D1("msisdn_old", "+27821110000"), "msisdn_new", "+27821111111"),
                  "msisdn_device", "+27821111111"),
              Put(D1("msisdn_old", "+27821110000"), "msisdn_new", "+27821111111")}
      [] a = "momconnect_change_language" ->
             {EmptyMap, D1("language", "zul_ZA"), D1("language", "klingon")}
      [] a = "momconnect_change_msisdn" ->
             {EmptyMap, D1("msisdn", "+27821111111"), D1("msisdn", "0821111111")}
      [] a = "momconnect_change_identification" ->
             {SaId, Passport, D1("id_type", "none"), D1("id_type", "sa_id")}
      [] a = "admin_change_subscription" ->
             {Put(D1("subscription", "sub1"), "messageset", "momconnect_postbirth.hw_full.1"),
              Put(D1("subscription", "sub2"), "language", "zul_ZA"),
              D1("language", "zul_ZA"), D1("subscription", "sub1")}
      [] a = "switch_channel" ->
             {EmptyMap, D1("channel", "whatsapp"), D1("channel", "sms"),
              D1("channel", "telegram")}

NewRecord(kind, action, source, authority, registrant_id, data, via_app) ==
    [kind |-> kind, action |-> action, source |-> source, authority |-> authority,
     registrant_id |-> registrant_id, data |-> data, validated |-> FALSE,
     invalid |-> <<>>, via_app |-> via_app]

Changes ==
    UNION {{NewRecord("change", a, "n/a", "n/a", Registrant, d, FALSE) :
               d \in ChangeData(a)} : a \in ChangeActions}
    \cup {NewRecord("change", "baby_switch", "n/a", "n/a", "not-a-uuid", EmptyMap, FALSE)}

\* source.name and source.authority of the sources registrations come from
Sources ==
    {<<"PUBLIC USSD APP", "patient">>, <<"CLINIC USSD APP", "hw_full">>,
     <<"CHW USSD APP", "hw_partial">>, <<"HELPDESK", "advisor">>}

FullData ==
    [k \in {"operator_id", "msisdn_registrant", "msisdn_device", "language",
            "consent", "id_type", "sa_id_no", "mom_dob", "edd", "faccode"} |->
        CASE k = "operator_id" -> "operator-uuid"
          [] k = "msisdn_registrant" -> "+27821110000"
          [] k = "msisdn_device" -> "+27821112222"
          [] k = "language" -> "eng_ZA"
          [] k = "consent" -> "true"
          [] k = "id_type" -> "sa_id"
          [] k = "sa_id_no" -> "8108015001051"
          [] k = "mom_dob" -> "1982-03-15"
          [] k = "edd" -> "2016-05-01"
          [] k = "faccode" -> "123456"]

\* registration.data as submitted
RegistrationData ==
    {FullData,
     Pop(FullData, "edd"),
     Put(Pop(FullData, "edd"), "baby_dob", "2015-12-01"),
     Put(FullData, "edd", "2016-09-22"),
     Pop(FullData, "language"),
     Pop(FullData, "operator_id"),
     Put(FullData, "consent", "false"),
     Put(PopAll(FullData, {"sa_id_no", "msisdn_device"}), "id_type", "passport")}

Registrations ==
    {NewRecord("registration", t, src[1], src[2], Registrant, d, FALSE) :
        t \in RegTypes \ {"jembi_momconnect"}, src \in Sources, d \in RegistrationData}

\* registration.data as the Jembi app's serializer leaves it
JembiAppData ==
    {Put(Put(Put(Put(d, "mom_opt_in", o), "mom_whatsapp", "true"), "mom_pmtct", o),
         "callback_url", "https://example.org/hook") :
        d \in {Pop(FullData, "operator_id"), PopAll(FullData, {"operator_id", "consent"}),
               PopAll(FullData, {"operator_id", "edd"})},
        o \in {"true", "false"}}
    \cup {Put(Put(Put(Pop(FullData, "operator_id"), "mom_opt_in", "false"),
                  "mom_whatsapp", "false"), "mom_pmtct", "false")}

JembiAppRegistrations ==
    {NewRecord("registration", "jembi_momconnect", src[1], src[2], "None", d, TRUE) :
        src \in {<<"CLINIC USSD APP", "hw_full">>, <<"JEMBI APP", "hw_full">>},
        d \in JembiAppData}

-----------------------------------------------------------------------------
(* The pipeline as a state machine *)

NoHistory ==
    [last |-> "none", task |-> "none", executed |-> 0, passed |-> FALSE, spawned |-> 0,
     ingested |-> 0]

\* no lookup of the schedule sequencer is followed
NoLookup == [stage |-> "none"]

\* nothing is followed of the record's personal information
NoLifecycle == [before |-> EmptyMap, deliveries |-> 0, rehydrated |-> <<>>, others |-> <<>>]

\* a record has been created and its run task enqueued; nothing has run yet
Init ==
    /\ rec \in Changes \cup Registrations \cup JembiAppRegistrations
    /\ \E w \in Worlds :
          /\ rec.kind = "registration" /\ ~rec.via_app => w.subs # <<>> /\ Len(w.subs) = 2
                                                          /\ Has(w.idents[1].details, "lang_code")
          /\ subs = w.subs
          /\ idents = w.idents
    /\ reqs = <<>>
    /\ chains = <<>>
    /\ runs = 0
    /\ hist = NoHistory
    /\ hook = <<>>
    /\ pii = NoLifecycle
    /\ calls = <<>>
    /\ sequencer = NoLookup

Cur ==
    [rec |-> rec, subs |-> subs, reqs |-> reqs, idents |-> idents, chains |-> chains,
     hist |-> hist, hook |-> hook]

Becomes(n) ==
    /\ rec' = n.rec
    /\ subs' = n.subs
    /\ reqs' = n.reqs
    /\ idents' = n.idents
    /\ chains' = n.chains
    /\ hist' = n.hist
    /\ hook' = n.hook
    /\ UNCHANGED <<pii, calls, sequencer>>

\* a worker executes validate_implement for the change (delivery is at least
\* once, and the task can be enqueued again for the same id)
ValidateImplement ==
    /\ rec.kind = "change"
    /\ runs < MaxRuns
    /\ runs' = runs + 1
    /\ Becomes(ValidateImplement_run(Cur))

\* a worker executes validate_subscribe for the registration
ValidateSubscribe ==
    /\ rec.kind = "registration"
    /\ runs < MaxRuns
    /\ runs' = runs + 1
    /\ Becomes(ValidateSubscribe_run(Cur))

\* a worker executes validate_subscribe_jembi_app_registration
ValidateSubscribeJembiAppRegistration ==
    /\ rec.kind = "registration"
    /\ rec.via_app
    /\ runs < MaxRuns
    /\ runs' = runs + 1
    /\ \E registered \in BOOLEAN, recognised \in BOOLEAN :
          Becomes(ValidateSubscribeJembiAppRegistration_run(Cur, registered, recognised))

\* a worker executes the submission task at the head of chain i
PushChangeToJembi(i) ==
    /\ rec.kind = "change"
    /\ chains[i].stage = "submit"
    /\ \E resp \in Responses, found \in BOOLEAN :
          chains' = [chains EXCEPT ![i] = BasePushOptoutToJembi_run(Cur, i, resp, found)]
    /\ UNCHANGED <<rec, subs, reqs, idents, runs, hist, hook, pii, calls, sequencer>>

PushRegistrationToJembi(i) ==
    /\ rec.kind = "registration"
    /\ chains[i].stage = "submit"
    /\ \E resp \in Responses :
          LET res == BasePushRegistrationToJembi_run(Cur, i, resp)
          IN  /\ rec' = res[1]
              /\ chains' = [chains EXCEPT ![i] = res[2]]
    /\ UNCHANGED <<subs, reqs, idents, runs, hist, hook, pii, calls, sequencer>>

\* the submission task of chain i has returned: a worker executes
\* remove_personally_identifiable_fields, the chain's second task
AnonymizeAt(i, stages) ==
    /\ chains[i].stage \in stages
    /\ IF remove_pii_raises(rec, idents)
       THEN /\ chains' = [chains EXCEPT ![i] = Raised(@)]
            /\ UNCHANGED <<rec, idents>>
       ELSE \E order \in Orders(MsisdnFields(rec.kind) \cap DOMAIN rec.data) :
               LET res == remove_personally_identifiable_fields(rec, idents, order)
               IN  /\ rec' = res[1]
                   /\ idents' = res[2]
                   /\ chains' = [chains EXCEPT ![i].stage = "done"]
    /\ UNCHANGED <<subs, reqs, runs, hist, hook, pii, calls, sequencer>>

\* the second task, were the chain not to wait for its first
AnonymizeUnordered(i) == AnonymizeAt(i, {"submit", "anon"})

\* Celery starts a chain's second task when its first has returned
Anonymize(i) == AnonymizeAt(i, {"anon"})

\* a worker executes http_request_with_retries for webhook i
DeliverWebhook(i) ==
    /\ hook[i].stage = "queued"
    /\ \E resp \in Responses, j \in 0 .. (JitterSteps - 1) :
          hook' = [hook EXCEPT ![i] = HTTPRequestWithRetries_run(@, resp, j)]
    /\ UNCHANGED <<rec, subs, reqs, idents, chains, runs, hist, pii, calls, sequencer>>

Next ==
    \/ ValidateImplement
    \/ ValidateSubscribe
    \/ ValidateSubscribeJembiAppRegistration
    \/ \E i \in DOMAIN chains : PushChangeToJembi(i)
    \/ \E i \in DOMAIN chains : PushRegistrationToJembi(i)
    \/ \E i \in DOMAIN chains : Anonymize(i)

Spec == Init /\ [][Next]_vars

-----------------------------------------------------------------------------
(* The tasks a first run leaves behind, followed on their own: the chain of  *)
(* one pipeline and the webhook of a Jembi app registration, with no further *)
(* delivery of the run task                                                  *)

Fresh(r, w) ==
    [rec |-> r, subs |-> w.subs, reqs |-> <<>>, idents |-> w.idents, chains |-> <<>>,
     hist |-> NoHistory, hook |-> <<>>]

FirstRuns ==
    {ValidateImplement_run(Fresh(r, w)) : r \in Changes, w \in Worlds}
    \cup {ValidateSubscribeJembiAppRegistration_run(Fresh(r, w), registered, TRUE) :
             r \in JembiAppRegistrations, w \in Worlds, registered \in BOOLEAN}

InitRetry ==
    /\ runs = 1
    /\ \E n \in FirstRuns :
          /\ n.chains # <<>>
          /\ rec = n.rec
          /\ subs = n.subs
          /\ reqs = n.reqs
          /\ idents = n.idents
          /\ chains = n.chains
          /\ hist = n.hist
          /\ hook = n.hook
    /\ pii = NoLifecycle
    /\ calls = <<>>
    /\ sequencer = NoLookup

NextRetry ==
    \/ \E i \in DOMAIN chains : PushChangeToJembi(i)
    \/ \E i \in DOMAIN chains : PushRegistrationToJembi(i)
    \/ \E i \in DOMAIN chains : Anonymize(i)
    \/ \E i \in DOMAIN hook : DeliverWebhook(i)

SpecRetry == InitRetry /\ [][NextRetry]_vars

-----------------------------------------------------------------------------
(* The action handlers on their own: a Change arrives for a registrant whose *)
(* subscriptions and addresses vary, validate_implement is delivered (and    *)
(* may be delivered again), and the Subscription Service ingests the         *)
(* SubscriptionRequests it is notified of                                    *)

OtherRegistrant == "id2"

Inactive(sub) == [sub EXCEPT !.active = FALSE]

\* the subscriptions the Subscription Service holds when the Change arrives
\* (the fourth as momconnect_change_language leaves the first: it changes the
\* language of the momconnect subscriptions only)
ChangeSubs ==
    {<<Sub(Registrant, MsName(FALSE, "momconnect_prebirth", "hw_full", 1), "eng_ZA", 5),
       Sub(Registrant, MsName(FALSE, "pmtct_prebirth", "patient", 1), "eng_ZA", 3)>>,
     <<Sub(Registrant, MsName(TRUE, "momconnect_prebirth", "patient", 1), "zul_ZA", 2),
       Sub(Registrant, MsName(FALSE, "nurseconnect", "hw_full", 1), "zul_ZA", 1)>>,
     <<>>,
     <<Sub(Registrant, MsName(FALSE, "momconnect_prebirth", "hw_full", 1), "zul_ZA", 5),
       Sub(Registrant, MsName(FALSE, "pmtct_prebirth", "patient", 1), "eng_ZA", 3)>>,
     <<Sub(Registrant, MsName(FALSE, "pmtct_prebirth", "patient", 2), "eng_ZA", 4),
       Sub(Registrant, MsName(TRUE, "nurseconnect", "hw_full", 1), "eng_ZA", 7)>>,
     <<Sub(Registrant, MsName(FALSE, "nurseconnect", "hw_full", 1), "eng_ZA", 2),
       Sub(OtherRegistrant, MsName(FALSE, "nurseconnect", "hw_full", 1), "eng_ZA", 9),
       Sub(Registrant, MsName(FALSE, "momconnect_prebirth", "hw_full", 1),
           "eng_ZA", 6)>>,
     <<Inactive(Sub(Registrant, MsName(FALSE, "momconnect_prebirth", "hw_full", 1),
                    "eng_ZA", 8)),
       Sub(Registrant, MsName(FALSE, "loss_miscarriage", "patient", 1), "eng_ZA", 1)>>,
     <<Sub(Registrant, MsName(TRUE, "momconnect_postbirth", "hw_full", 1), "zul_ZA", 4),
       Sub(Registrant, MsName(FALSE, "pmtct_postbirth", "patient", 1), "zul_ZA", 6),
       Sub(OtherRegistrant, MsName(FALSE, "momconnect_prebirth", "hw_full", 1),
           "eng_ZA", 3)>>}

\* the registrant's identity when the Change arrives: details and the
\* details.addresses.msisdn map (the fifth after an earlier change of msisdn
\* and an earlier change of identification)
ChangeIdents ==
    {Identity(D1("lang_code", "eng_ZA"), [a \in {"+27821110000"} |-> Addr(TRUE)]),
     Identity(EmptyMap, [a \in {"+27821110000"} |-> Addr(TRUE)]),
     Identity(D1("lang_code", "zul_ZA"),
              [a \in {"+27821110000", "+27821111111"} |->
                  IF a = "+27821111111" THEN Addr(TRUE) ELSE BareAddr]),
     Identity(D1("lang_code", "eng_ZA"),
              [a \in {"+27821110000", "+27821111111"} |->
                  IF a = "+27821110000" THEN Addr(FALSE) ELSE BareAddr]),
     [Identity(Put(D1("lang_code", "eng_ZA"), "sa_id_no", "7805015001052"),
               [a \in {"+27821110000", "+27821112222"} |->
                   IF a = "+27821110000" THEN Addr(TRUE)
                   ELSE [Addr(FALSE) EXCEPT !.changes_from = <<"rec0">>]])
         EXCEPT !.identification_history =
                    <<Put(Put(D1("change", "rec0"), "passport_no", "zz9876"),
                          "passport_origin", "bw")>>],
     Identity(D1("lang_code", "zul_ZA"), [a \in {} |-> BareAddr])}

InitChange ==
    /\ rec \in Changes
    /\ subs \in ChangeSubs
    /\ \E identity \in ChangeIdents : idents = <<identity>>
    /\ reqs = <<>>
    /\ chains = <<>>
    /\ runs = 0
    /\ hist = NoHistory
    /\ hook = <<>>
    /\ pii = NoLifecycle
    /\ calls = <<>>
    /\ sequencer = NoLookup

\* the Subscription Service is notified of the next SubscriptionRequest and
\* creates the subscription it asks for
IngestRequest ==
    /\ hist.ingested < Len(reqs)
    /\ LET rq == reqs[hist.ingested + 1]
       IN  subs' = Append(subs, [identity |-> rq.identity,
                                 messageset |-> rq.messageset,
                                 active |-> TRUE,
                                 lang |-> rq.lang,
                                 next_sequence_number |-> rq.next_sequence_number,
                                 schedule |-> rq.schedule])
    /\ hist' = [hist EXCEPT !.ingested = @ + 1]
    /\ UNCHANGED <<rec, reqs, idents, chains, runs, hook, pii, calls, sequencer>>

NextChange ==
    \/ ValidateImplement
    \/ IngestRequest

SpecChange == InitChange /\ [][NextChange]_vars

-----------------------------------------------------------------------------
(* The change handlers under at-least-once delivery with a worker that is    *)
(* lost in the middle of baby_switch: the task is delivered again            *)

\* a worker executes validate_implement for a baby_switch change and is lost
\* after the loop of baby_switch that deactivates the registrant's active
\* prebirth subscriptions, before any SubscriptionRequest is created: the
\* change is saved as validated, the subscriptions are deactivated, nothing
\* else has happened
BabySwitchInterrupted ==
    /\ rec.kind = "change"
    /\ rec.action = "baby_switch"
    /\ Validates(rec)
    /\ runs < MaxRuns
    /\ runs' = runs + 1
    /\ LET active == ActiveSubs(subs, rec.registrant_id)
           prebirth == {i \in active : InName("prebirth", subs[i].messageset)}
       IN  /\ prebirth # {}
           /\ subs' = Deactivate(subs, prebirth)
    /\ rec' = validate(rec)
    /\ hist' = [hist EXCEPT !.last = "interrupted", !.task = "validate_implement"]
    /\ UNCHANGED <<reqs, idents, chains, hook, pii, calls, sequencer>>

NextInterrupted ==
    \/ ValidateImplement
    \/ IngestRequest
    \/ BabySwitchInterrupted

SpecInterrupted == InitChange /\ [][NextInterrupted]_vars

-----------------------------------------------------------------------------
(* The personal information of a record on its own: the record has run and   *)
(* its chain has come to the anonymization task, which is delivered (and may *)
(* be delivered again); the registrant's other records are anonymized too;   *)
(* the record is rehydrated for reprocessing at any moment                   *)

\* the records as their first run leaves them, with the services' states
PiiRuns ==
    FirstRuns
    \cup {ValidateSubscribe_run(Fresh(r, w)) :
             r \in Registrations,
             w \in {x \in Worlds : Len(x.subs) = 2 /\ Has(x.idents[1].details, "lang_code")}}

\* an earlier registration of the same registrant, validated and not yet
\* anonymized
OtherRegistration(registrant_id) ==
    [NewRecord("registration", "momconnect_prebirth", "CLINIC USSD APP", "hw_full",
               registrant_id,
               [k \in {"language", "mom_dob", "id_type", "passport_no", "passport_origin",
                      "msisdn_registrant", "edd"} |->
                  CASE k = "language" -> "zul_ZA"
                    [] k = "mom_dob" -> "1999-01-27"
                    [] k = "id_type" -> "passport"
                    [] k = "passport_no" -> "abc1234"
                    [] k = "passport_origin" -> "na"
                    [] k = "msisdn_registrant" -> "+27821110000"
                    [] k = "edd" -> "2016-02-20"],
              FALSE)
        EXCEPT !.validated = TRUE]

InitPii ==
    /\ \E n \in PiiRuns :
          /\ n.chains # <<>>
          /\ PiiKeys(n.rec) # {}
          /\ rec = n.rec
          /\ subs = n.subs
          /\ reqs = n.reqs
          /\ idents = n.idents
          /\ hist = n.hist
          /\ \E others \in {<<>>, <<OtherRegistration(n.rec.registrant_id)>>} :
                pii = [before |-> n.rec, deliveries |-> 0, rehydrated |-> <<>>,
                       others |-> others]
    /\ chains = <<>>
    /\ runs = 1
    /\ hook = <<>>
    /\ calls = <<>>
    /\ sequencer = NoLookup

\* a worker executes remove_personally_identifiable_fields for the record
RemovePii ==
    /\ pii.deliveries < MaxRuns
    /\ pii' = [pii EXCEPT !.deliveries = @ + 1]
    /\ IF remove_pii_raises(rec, idents)
       THEN UNCHANGED <<rec, idents>>
       ELSE \E order \in Orders(MsisdnFields(rec.kind) \cap DOMAIN rec.data) :
               LET res == remove_personally_identifiable_fields(rec, idents, order)
               IN  /\ rec' = res[1]
                   /\ idents' = res[2]
    /\ UNCHANGED <<subs, reqs, chains, runs, hist, hook, calls, sequencer>>

\* a worker executes remove_personally_identifiable_fields for another record
\* of the registrant
RemovePiiOfOther(j) ==
    /\ PiiKeys(pii.others[j]) # {}
    /\ ~remove_pii_raises(pii.others[j], idents)
    /\ \E order \in Orders(MsisdnFields(pii.others[j].kind) \cap DOMAIN pii.others[j].data) :
          LET res == remove_personally_identifiable_fields(pii.others[j], idents, order)
          IN  /\ pii' = [pii EXCEPT !.others[j] = res[1]]
              /\ idents' = res[2]
    /\ UNCHANGED <<rec, subs, reqs, chains, runs, hist, hook, calls, sequencer>>

\* the record is read back for reprocessing: add_personally_identifiable_fields
\* or restore_personally_identifiable_fields returns it, nothing is saved
Rehydrate ==
    /\ \E msisdn_of \in [UuidFields(rec.kind) \cap DOMAIN rec.data ->
                            UNION {get_identity_msisdn(idents, id) : id \in IdNamesOf(idents)}
                            \cup {"None"}] :
          /\ \A u \in DOMAIN msisdn_of :
                 msisdn_of[u] \in get_identity_msisdn(idents, rec.data[u])
          /\ pii' = [pii EXCEPT !.rehydrated =
                        <<IF rec.kind = "change"
                          THEN restore_personally_identifiable_fields(rec, idents, msisdn_of)
                          ELSE add_personally_identifiable_fields(rec, idents, msisdn_of)>>]
    /\ UNCHANGED <<rec, subs, reqs, idents, chains, runs, hist, hook, calls, sequencer>>

NextPii ==
    \/ RemovePii
    \/ \E j \in DOMAIN pii.others : RemovePiiOfOther(j)
    \/ Rehydrate

SpecPii == InitPii /\ [][NextPii]_vars

-----------------------------------------------------------------------------
(* get_or_update_identity_by_address on its own: two workers run             *)
(* validate_subscribe_jembi_app_registration at the same time (the task is   *)
(* delivered at least once, and two registrations can carry the same         *)
(* numbers); each invocation is two requests to the Identity Service, the    *)
(* search by address and, when it finds no identity, the creation            *)

FirstNumber == "+27821110000"

SecondNumber == "+27821112222"

\* what the Identity Service holds: nothing; an identity created by an
\* earlier resolution; one created by an anonymization; one after a change of
\* msisdn from the first number to the second; two that hold the first number
CallIdents ==
    {<<>>,
     <<PrimaryIdentityFor(FirstNumber)>>,
     <<Identity(EmptyMap, [a \in {FirstNumber} |-> BareAddr])>>,
     <<Identity(D1("lang_code", "eng_ZA"),
                [a \in {FirstNumber, SecondNumber} |->
                    IF a = SecondNumber
                    THEN [Addr(TRUE) EXCEPT !.changes_to = <<"rec0">>]
                    ELSE [Addr(FALSE) EXCEPT !.changes_from = <<"rec0">>]])>>,
     <<Identity(D1("lang_code", "eng_ZA"),
                [a \in {FirstNumber, SecondNumber} |->
                    IF a = SecondNumber
                    THEN [Addr(TRUE) EXCEPT !.changes_to = <<"rec0">>]
                    ELSE [Addr(FALSE) EXCEPT !.changes_from = <<"rec0">>]]),
       PrimaryIdentityFor(FirstNumber)>>}

\* an invocation that has not sent its first request
NewCall(address) == [address |-> address, pc |-> "search", identity |-> 0]

InitCalls ==
    /\ rec = NewRecord("registration", "jembi_momconnect", "JEMBI APP", "hw_full", "None",
                       Put(Put(Put(Pop(FullData, "operator_id"), "mom_opt_in", "false"),
                               "mom_whatsapp", "false"), "mom_pmtct", "false"),
                       TRUE)
    /\ idents \in CallIdents
    /\ \E a, b \in {rec.data["msisdn_registrant"], rec.data["msisdn_device"]} :
          calls = <<NewCall(a), NewCall(b)>>
    /\ subs = <<>>
    /\ reqs = <<>>
    /\ chains = <<>>
    /\ runs = 0
    /\ hist = NoHistory
    /\ hook = <<>>
    /\ pii = NoLifecycle
    /\ sequencer = NoLookup

\* invocation p receives the answer to its search: it returns the first
\* identity that passes is_primary_address, or goes on to create one
SearchIdentity(p) ==
    /\ calls[p].pc = "search"
    /\ LET identities == PrimaryIdentities(idents, calls[p].address)
       IN  calls' = [calls EXCEPT ![p] =
                        IF identities # {}
                        THEN [@ EXCEPT !.pc = "returned", !.identity = FirstOf(identities)]
                        ELSE [@ EXCEPT !.pc = "create"]]
    /\ UNCHANGED <<rec, subs, reqs, idents, chains, runs, hist, hook, pii, sequencer>>

\* invocation p, whose search found no identity, creates one and returns it
CreateIdentity(p) ==
    /\ calls[p].pc = "create"
    /\ idents' = Append(idents, PrimaryIdentityFor(calls[p].address))
    /\ calls' = [calls EXCEPT ![p] = [@ EXCEPT !.pc = "returned",
                                               !.identity = Len(idents) + 1]]
    /\ UNCHANGED <<rec, subs, reqs, chains, runs, hist, hook, pii, sequencer>>

NextCalls ==
    \/ \E p \in DOMAIN calls : SearchIdentity(p)
    \/ \E p \in DOMAIN calls : CreateIdentity(p)

SpecCalls == InitCalls /\ [][NextCalls]_vars

-----------------------------------------------------------------------------
(* validate on its own: a record is created with good data, with one field   *)
(* missing, with one field malformed, or with no data, and validate is       *)
(* called on it, and called again on the record as saved                     *)

AllAuthorities == {"patient", "hw_partial", "hw_full", "advisor"}

\* data that passes the checks of every action but those of the nurse actions
GoodChangeData(a) ==
    CASE a = "baby_switch" -> {EmptyMap}
      [] a \in {"pmtct_loss_switch", "pmtct_loss_optout", "momconnect_loss_switch",
                "momconnect_loss_optout"} -> {D1("reason", "miscarriage")}
      [] a = "pmtct_nonloss_optout" -> {D1("reason", "not_hiv_pos")}
      [] a = "momconnect_nonloss_optout" -> {D1("reason", "not_useful")}
      [] a = "nurse_optout" -> {D1("reason", "job_change")}
      [] a = "nurse_update_detail" ->
             {D1("faccode", "123456"), D1("sanc_no", "12345678"),
              D1("persal_no", "11114444"), Put(SaId, "dob", "1982-03-15"),
              Put(Passport, "dob", "1982-03-15")}
      [] a = "nurse_change_msisdn" ->
             {Put(Put(D1("msisdn_old", "+27821110000"), "msisdn_new", "+27821111111"),
                  "msisdn_device", "+27821111111")}
      [] a = "momconnect_change_language" -> {D1("language", "zul_ZA")}
      [] a = "momconnect_change_msisdn" -> {D1("msisdn", "+27821111111")}
      [] a = "momconnect_change_identification" -> {SaId, Passport}
      [] a = "admin_change_subscription" ->
             {Put(D1("subscription", "sub1"), "messageset", "momconnect_postbirth.hw_full.1"),
              Put(D1("subscription", "sub2"), "language", "zul_ZA")}
      [] a = "switch_channel" -> {D1("channel", "whatsapp")}

\* data that passes the checks of every reg_type
GoodRegistrationData ==
    LET full == Put(FullData, "baby_dob", "2015-12-01")
    IN  {full,
         Put(Put(Put(Pop(full, "sa_id_no"), "id_type", "passport"),
                 "passport_no", "abc1234"), "passport_origin", "na"),
         Put(Pop(full, "sa_id_no"), "id_type", "none")}

\* the records validate is called on
ValidationRecords ==
    LET good == UNION {{NewRecord("change", a, "n/a", "n/a", Registrant, d, FALSE) :
                           d \in GoodChangeData(a)} : a \in ChangeActions}
                \cup {NewRecord("registration", t, "n/a", authority, Registrant, d, FALSE) :
                         t \in RegTypes, authority \in AllAuthorities,
                         d \in GoodRegistrationData}
        less == UNION {{[g EXCEPT !.data = Pop(@, k)] : k \in DOMAIN g.data} : g \in good}
        malformed == UNION {{[g EXCEPT !.data = Put(@, k, "bad")] : k \in DOMAIN g.data} :
                               g \in good}
        empty == {[g EXCEPT !.data = EmptyMap] : g \in good}
        all == good \cup less \cup malformed \cup empty
    IN  all \cup {[r EXCEPT !.registrant_id = "not-a-uuid"] : r \in all}

InitValidate ==
    /\ rec \in ValidationRecords
    /\ subs = <<>>
    /\ reqs = <<>>
    /\ idents = <<>>
    /\ chains = <<>>
    /\ runs = 0
    /\ hist = NoHistory
    /\ hook = <<>>
    /\ pii = NoLifecycle
    /\ calls = <<>>
    /\ sequencer = NoLookup

\* ValidateImplement.validate(change) is called; runs counts the calls
ValidateChange ==
    /\ rec.kind = "change"
    /\ runs < MaxRuns
    /\ runs' = runs + 1
    /\ IF validate_raises(rec)
       THEN /\ hist' = [hist EXCEPT !.last = "crashed", !.task = "validate"]
            /\ UNCHANGED rec
       ELSE /\ rec' = validate(rec)
            /\ hist' = [hist EXCEPT !.last = "returned", !.task = "validate"]
    /\ UNCHANGED <<subs, reqs, idents, chains, hook, pii, calls, sequencer>>

\* ValidateSubscribe.validate(registration) is called
ValidateRegistration ==
    /\ rec.kind = "registration"
    /\ runs < MaxRuns
    /\ runs' = runs + 1
    /\ IF validate_raises(rec)
       THEN /\ hist' = [hist EXCEPT !.last = "crashed", !.task = "validate"]
            /\ UNCHANGED rec
       ELSE /\ rec' = validate(rec)
            /\ hist' = [hist EXCEPT !.last = "returned", !.task = "validate"]
    /\ UNCHANGED <<subs, reqs, idents, chains, hook, pii, calls, sequencer>>

NextValidate ==
    \/ ValidateChange
    \/ ValidateRegistration

SpecValidate == InitValidate /\ [][NextValidate]_vars

-----------------------------------------------------------------------------
(* The schedule sequencer on its own: create_subscriptionrequests asks for   *)
(* the short name of the message set of a reg_type, authority and number of  *)
(* weeks, and then for the message set, schedule and sequence number of that *)
(* short name at that number of weeks                                        *)

\* the weeks the sequencer is asked about: every week from WeeksBefore weeks
\* before week 0 to MaxWeeks, and the far values of
\* test_get_messageset_short_name
WeeksBefore == 3

MaxWeeks == 42

FarWeeks == 1000

Positions == ((-WeeksBefore) .. MaxWeeks) \cup {-FarWeeks, FarWeeks}

SequencerTypes ==
    {"pmtct_prebirth", "whatsapp_pmtct_prebirth", "pmtct_postbirth",
     "whatsapp_pmtct_postbirth", "nurseconnect", "momconnect_prebirth", "popi"}

InitSequencer ==
    /\ \E reg_type \in SequencerTypes, authority \in {"patient", "hw_full"},
          weeks \in Positions :
          sequencer = [stage |-> "asked", reg_type |-> reg_type, authority |-> authority,
                       weeks |-> weeks]
    /\ rec = NewRecord("registration", sequencer.reg_type, "n/a", sequencer.authority,
                       Registrant, EmptyMap, FALSE)
    /\ subs = <<>>
    /\ reqs = <<>>
    /\ idents = <<>>
    /\ chains = <<>>
    /\ runs = 0
    /\ hist = NoHistory
    /\ hook = <<>>
    /\ pii = NoLifecycle
    /\ calls = <<>>

\* short_name = utils.get_messageset_short_name(reg_type, authority, weeks)
ShortName ==
    /\ sequencer.stage = "asked"
    /\ sequencer' = [stage |-> "named", reg_type |-> sequencer.reg_type,
                     authority |-> sequencer.authority, weeks |-> sequencer.weeks,
                     short_name |-> get_messageset_short_name(
                                        sequencer.reg_type, sequencer.authority,
                                        sequencer.weeks)]
    /\ UNCHANGED <<rec, subs, reqs, idents, chains, runs, hist, hook, pii, calls>>

\* msgset_id, msgset_schedule, next_sequence_number =
\*     utils.get_messageset_schedule_sequence(short_name, weeks)
Resolve ==
    /\ sequencer.stage = "named"
    /\ LET res == get_messageset_schedule_sequence(sequencer.short_name, sequencer.weeks)
       IN  sequencer' = [stage |-> "resolved", reg_type |-> sequencer.reg_type,
                         authority |-> sequencer.authority, weeks |-> sequencer.weeks,
                         short_name |-> sequencer.short_name,
                         messageset |-> res[1], schedule |-> res[2],
                         next_sequence_number |-> res[3]]
    /\ UNCHANGED <<rec, subs, reqs, idents, chains, runs, hist, hook, pii, calls>>

NextSequencer ==
    \/ ShortName
    \/ Resolve

SpecSequencer == InitSequencer /\ [][NextSequencer]_vars

-----------------------------------------------------------------------------
(* validate on records of unexpected shape: a registration whose data column *)
(* is null, data with a key the action does not know, a nurseconnect         *)
(* registration with the four fields of the nurse's details alone            *)

\* the data of test_validate_nurseconnect_good
NurseconnectData ==
    [k \in {"operator_id", "msisdn_registrant", "msisdn_device", "faccode"} |-> FullData[k]]

UnexpectedRecords ==
    LET registrations ==
            {NewRecord("registration", t, "n/a", authority, Registrant, d, FALSE) :
                t \in RegTypes, authority \in AllAuthorities,
                d \in {NoneData, EmptyMap, NurseconnectData,
                       Put(NurseconnectData, "language", "eng_ZA")}}
        good == UNION {{NewRecord("change", a, "n/a", "n/a", Registrant, d, FALSE) :
                           d \in GoodChangeData(a)} : a \in ChangeActions}
        less == UNION {{[g EXCEPT !.data = Pop(@, k)] : k \in DOMAIN g.data} : g \in good}
        malformed == UNION {{[g EXCEPT !.data = Put(@, k, "bad")] : k \in DOMAIN g.data} :
                               g \in good}
        changes == good \cup less \cup malformed
        more == {[g EXCEPT !.data = Put(@, k, "123456")] :
                    g \in changes, k \in {"faccode", "msisdn_new", "notes"}}
        all == registrations \cup changes \cup more
    IN  all \cup {[r EXCEPT !.registrant_id = "not-a-uuid"] : r \in all}

InitUnexpected ==
    /\ rec \in UnexpectedRecords
    /\ subs = <<>>
    /\ reqs = <<>>
    /\ idents = <<>>
    /\ chains = <<>>
    /\ runs = 0
    /\ hist = NoHistory
    /\ hook = <<>>
    /\ pii = NoLifecycle
    /\ calls = <<>>
    /\ sequencer = NoLookup

SpecUnexpected == InitUnexpected /\ [][NextValidate]_vars

-----------------------------------------------------------------------------
(* Properties of the pipeline *)

Is4xx(resp) == 400 <= resp /\ resp < 500

Is5xx(resp) == 500 <= resp /\ resp < 600

Is2xx(resp) == 200 <= resp /\ resp < 300

\* attempts a submission task can make: the first and task_max_retries retries
MaxAttempts == task_max_retries + 1

\* a step is an execution of validate_implement or validate_subscribe on a
\* record that validate() rejects
RejectingRun ==
    /\ runs' = runs + 1
    /\ hist'.task \in {"validate_implement", "validate_subscribe"}
    /\ rec.action # "jembi_momconnect"
    /\ ~Validates(rec)

\* C1: when validate() returns false the run sets data.invalid_fields and does
\* nothing else: validated is left as it was (false on a record that never
\* validated), no subscription is deactivated, no SubscriptionRequest is
\* created, no identity is updated and no chain (submission, anonymization) is
\* enqueued.
C1_InvalidIsTerminal ==
    [][RejectingRun =>
          /\ rec'.invalid # <<>>
          /\ rec'.validated = rec.validated
          /\ (hist.executed = 0 => ~rec'.validated)
          /\ rec'.data = rec.data
          /\ UNCHANGED <<subs, reqs, idents, chains, hook>>]_vars

C1_Witness ==
    /\ hist.last = "invalid"
    /\ hist.task \in {"validate_implement", "validate_subscribe"}
    /\ rec.invalid # <<>>
    /\ ~rec.validated
    /\ subs # <<>>
    /\ reqs = <<>>
    /\ chains = <<>>

\* C2: a record is validated only if validate()'s required-field checks have
\* passed on it, whichever task set the flag.
C2_ValidatedOnlyAfterChecks == rec.validated => hist.passed

\* C3: the handler of a record runs at most once, however often the run task
\* is delivered: one execution, at most one chain, at most the requests of one
\* execution.
C3_ExecutedAtMostOnce == hist.executed <= 1 /\ Len(chains) <= 1

\* a step of a chain's task takes personal information out of record.data
\* (momconnect_change_msisdn and momconnect_change_identification move their
\* fields to the identity within the run itself)
RemovesPii ==
    /\ runs' = runs
    /\ PiiKeys(rec') # PiiKeys(rec)
    /\ PiiKeys(rec') \subseteq PiiKeys(rec)

PermanentlyFailed(ch) ==
    \/ Is4xx(ch.last)
    \/ Is5xx(ch.last) /\ ch.stage # "submit"
    \/ ch.last = ConnectionFailure

\* C5: after a permanent failure of the submission the anonymization step of
\* that chain does not run.
C5_NoAnonymizationAfterFailure ==
    \A i \in DOMAIN chains :
        PermanentlyFailed(chains[i]) => chains[i].stage \notin {"anon", "done"}

\* C6: a POST answered with any 5xx status is retried while retries are left.
C6_Every5xxRetried ==
    \A i \in DOMAIN chains :
        Is5xx(chains[i].last) /\ chains[i].attempts <= task_max_retries
            => chains[i].stage = "submit"

\* C7: a POST that fails at connection level is retried while retries are
\* left, and the submission task is not reported as returned.
C7_ConnectionFailureRetried ==
    \A i \in DOMAIN chains :
        chains[i].last = ConnectionFailure /\ chains[i].attempts <= task_max_retries
            => chains[i].stage = "submit" /\ ~chains[i].returned

\* C8: a POST answered with 4xx is not retried: the payload is logged, the
\* task fails (the chain stops before anonymization), the attempt answered
\* 4xx is the last one, and it is the only one when no 5xx came before.
C8_No4xxRetry ==
    /\ [](\A i \in DOMAIN chains :
             Is4xx(chains[i].last) =>
                 /\ chains[i].stage = "failed"
                 /\ chains[i].payload_logged
                 /\ ~chains[i].returned
                 /\ chains[i].attempts = chains[i].retries + 1)
    /\ [][\A i \in DOMAIN chains :
             Is4xx(chains[i].last) => chains'[i] = chains[i]]_vars

C8_Witness ==
    \E i \in DOMAIN chains :
        /\ chains[i].last = 400
        /\ chains[i].attempts = 1
        /\ chains[i].stage = "failed"
        /\ chains[i].payload_logged

\* C9: 503 is the one answer of Responses that is retried, so a chain with
\* retries = N has been answered 503 exactly N times.  After N < MaxAttempts
\* answers of 503 the task is still to be executed (unless it raised before
\* it could ask the endpoint again), a 2xx answer then completes it; no chain
\* makes more than MaxAttempts attempts, and the one whose last attempt is
\* answered with an error has failed.
C9_BoundedRetries ==
    \A i \in DOMAIN chains :
        LET ch == chains[i]
        IN  /\ ch.attempts <= MaxAttempts
            /\ ch.last = 503 /\ ch.attempts < MaxAttempts /\ ~ch.raised
                   => ch.stage = "submit"
            /\ Is2xx(ch.last) =>
                   ch.returned /\ ch.stage \in {"anon", "done"}
                   /\ ch.attempts = ch.retries + 1
            /\ ch.attempts = MaxAttempts /\ IsHTTPError(ch.last) => ch.stage = "failed"

C9_Witness ==
    \E i \in DOMAIN chains :
        /\ chains[i].retries = task_max_retries
        /\ chains[i].attempts = MaxAttempts
        /\ Is2xx(chains[i].last)
        /\ chains[i].stage = "anon"

\* the bounds of the claim for the retry after k retries, base in seconds,
\* on a delay d in units of 1 / DelayUnit seconds
WithinBackoff(d, base, k) ==
    /\ base * (2 ^ k) * DelayUnit <= d
    /\ d * 100 <= base * (2 ^ k) * DelayUnit * (100 + jitter_percentage)

-----------------------------------------------------------------------------
(* Properties of the action handlers *)

\* a step is an execution of validate_implement that validates the change and
\* runs the handler of one of the given actions
HandlerRun(actions) ==
    /\ runs' = runs + 1
    /\ rec.kind = "change"
    /\ rec.action \in actions
    /\ Validates(rec)

LossSwitches == {"pmtct_loss_switch", "momconnect_loss_switch"}

\* the SubscriptionRequests a step creates
NewRequests == SubSeq(reqs', Len(reqs) + 1, Len(reqs'))

\* a step enqueues exactly one chain, whose submission task is task
Enqueues(task) ==
    /\ Len(chains') = Len(chains) + 1
    /\ SubSeq(chains', 1, Len(chains)) = chains
    /\ chains'[Len(chains')] = NewChain(task)

\* C11: a loss switch for a registrant with no active subscription updates
\* no subscription, creates no SubscriptionRequest and enqueues no submission
\* task.
C11_LossSwitchWithoutSubscriptions ==
    [][HandlerRun(LossSwitches) /\ ActiveSubs(subs, rec.registrant_id) = {} =>
          UNCHANGED <<subs, reqs, chains, idents>>]_vars

C11_Witness ==
    /\ rec.action \in LossSwitches
    /\ hist.last = "executed"
    /\ runs = 1
    /\ subs = <<>>
    /\ reqs = <<>>
    /\ chains = <<>>

McPrebirth(ss, identity) ==
    {i \in ActiveSubs(ss, identity) : InName("momconnect_prebirth", ss[i].messageset)}

\* C12: a baby switch for a registrant with exactly one active momconnect
\* prebirth subscription, in language L, leaves no active prebirth
\* subscription, creates exactly one momconnect postbirth SubscriptionRequest,
\* in language L and on WhatsApp iff the prebirth subscription was, and
\* enqueues the submission of a report of type 11.
C12_BabySwitch ==
    [][HandlerRun({"baby_switch"}) /\ Cardinality(McPrebirth(subs, rec.registrant_id)) = 1 =>
          LET i == CHOOSE i \in McPrebirth(subs, rec.registrant_id) : TRUE
              new == NewRequests
              post == {k \in DOMAIN new : new[k].messageset.set = "momconnect_postbirth"}
          IN  /\ \A j \in ActiveSubs(subs', rec.registrant_id) :
                     ~InName("prebirth", subs'[j].messageset)
              /\ Cardinality(post) = 1
              /\ \A k \in post :
                     /\ new[k].identity = rec.registrant_id
                     /\ new[k].lang = subs[i].lang
                     /\ new[k].messageset.wa = subs[i].messageset.wa
              /\ Enqueues("push_momconnect_babyswitch_to_jembi")
              /\ JembiType(chains'[Len(chains')].task) = 11]_vars

IsLoss(ms) == ms.set \in {"loss_miscarriage", "loss_stillbirth", "loss_babyloss"}

\* C13: running a loss switch again for the same record, on the state its
\* first run left (its SubscriptionRequest ingested or not), creates no
\* further SubscriptionRequest and leaves an active loss subscription active.
C13_LossSwitchRerunHarmless ==
    [][HandlerRun(LossSwitches) /\ hist.executed >= 1 /\ reqs # <<>> =>
          /\ reqs' = reqs
          /\ \A i \in DOMAIN subs :
                 subs[i].active /\ IsLoss(subs[i].messageset) => subs'[i].active]_vars

\* C14: a loss switch for a registrant none of whose active subscriptions is a
\* momconnect one aborts (nothing deactivated, no SubscriptionRequest, no
\* submission); otherwise it deactivates every active subscription but the
\* nurseconnect ones, creates one loss SubscriptionRequest and enqueues the
\* baby loss report.
C14_LegacyLossSwitchAborts ==
    [][HandlerRun(LossSwitches) =>
          IF \A i \in ActiveSubs(subs, rec.registrant_id) :
                 ~InName("momconnect", subs[i].messageset)
          THEN UNCHANGED <<subs, reqs, chains>>
          ELSE /\ subs' = deactivate_all_except_nurseconnect(rec, subs)
               /\ Len(NewRequests) = 1
               /\ IsLoss(NewRequests[1].messageset)
               /\ Enqueues("push_momconnect_babyloss_to_jembi")]_vars

IsNurseconnect(sub) == InName("nurseconnect", sub.messageset)

\* the registrant's subscription at position i of subs is active
ActiveOf(i) == subs[i].identity = rec.registrant_id /\ subs[i].active

\* a step deactivates exactly the subscriptions at the positions in which
DeactivatesExactly(which) ==
    /\ DOMAIN subs' = DOMAIN subs
    /\ \A i \in DOMAIN subs :
           subs'[i] = IF i \in which THEN [subs[i] EXCEPT !.active = FALSE] ELSE subs[i]

LossOptouts == {"pmtct_loss_optout", "momconnect_loss_optout"}

\* C15: a loss optout deactivates every active subscription of the
\* registrant that is not a nurseconnect one, leaves the active nurseconnect
\* subscriptions (and everything else) as they were, creates no
\* SubscriptionRequest and enqueues the optout report.
C15_LossOptout ==
    [][HandlerRun(LossOptouts) =>
          /\ DeactivatesExactly({i \in DOMAIN subs : ActiveOf(i) /\ ~IsNurseconnect(subs[i])})
          /\ \A i \in DOMAIN subs : ActiveOf(i) /\ IsNurseconnect(subs[i]) => subs'[i].active
          /\ reqs' = reqs
          /\ Enqueues(IF rec.action = "pmtct_loss_optout"
                      THEN "push_pmtct_optout_to_jembi"
                      ELSE "push_momconnect_optout_to_jembi")]_vars

C15_Witness ==
    /\ rec.action \in LossOptouts
    /\ hist.last = "executed"
    /\ runs = 1
    /\ reqs = <<>>
    /\ Len(chains) = 1
    /\ \E i, j \in DOMAIN subs :
           /\ subs[i].identity = rec.registrant_id /\ subs[j].identity = rec.registrant_id
           /\ ~subs[i].active /\ ~IsNurseconnect(subs[i])
           /\ subs[j].active /\ IsNurseconnect(subs[j])

NonlossOptouts == {"pmtct_nonloss_optout", "momconnect_nonloss_optout"}

\* C16 as stated: a non-loss optout, momconnect or pmtct, deactivates all the
\* registrant's active subscriptions when the reason is "unknown" or
\* "sms_failure", and all but the nurseconnect ones otherwise.
C16_NonlossOptoutAllButNurseconnect ==
    [][HandlerRun(NonlossOptouts) =>
          DeactivatesExactly(
              {i \in DOMAIN subs :
                  /\ ActiveOf(i)
                  /\ \/ rec.data["reason"] \in {"unknown", "sms_failure"}
                     \/ ~IsNurseconnect(subs[i])})]_vars

\* C16, amended: momconnect_nonloss_optout deactivates all the registrant's
\* active subscriptions when the reason is "unknown" or "sms_failure" and all
\* but the nurseconnect ones otherwise; pmtct_nonloss_optout deactivates all
\* of them when the reason is "unknown" and only the pmtct ones otherwise.
\* Both enqueue their optout report and create no SubscriptionRequest.
C16_NonlossOptout ==
    [][HandlerRun(NonlossOptouts) =>
          /\ DeactivatesExactly(
                 {i \in DOMAIN subs :
                     /\ ActiveOf(i)
                     /\ IF rec.action = "momconnect_nonloss_optout"
                        THEN \/ rec.data["reason"] \in {"unknown", "sms_failure"}
                             \/ ~IsNurseconnect(subs[i])
                        ELSE \/ rec.data["reason"] = "unknown"
                             \/ InName("pmtct", subs[i].messageset)})
          /\ reqs' = reqs
          /\ Enqueues(IF rec.action = "pmtct_nonloss_optout"
                      THEN "push_pmtct_optout_to_jembi"
                      ELSE "push_momconnect_optout_to_jembi")]_vars

\* a pmtct non-loss optout for another reason than "unknown" has left the
\* momconnect subscription active and the pmtct one inactive
C16_Witness ==
    /\ rec.action = "pmtct_nonloss_optout"
    /\ hist.last = "executed"
    /\ rec.data["reason"] = "not_hiv_pos"
    /\ \E i, j \in DOMAIN subs :
           /\ subs[i].identity = rec.registrant_id /\ subs[j].identity = rec.registrant_id
           /\ subs[i].active /\ InName("momconnect", subs[i].messageset)
           /\ ~subs[j].active /\ InName("pmtct", subs[j].messageset)

\* C17: a nurse optout deactivates exactly the registrant's active
\* nurseconnect subscriptions, changes no other subscription, and enqueues the
\* nurse optout report.
C17_NurseOptout ==
    [][HandlerRun({"nurse_optout"}) =>
          /\ DeactivatesExactly({i \in DOMAIN subs : ActiveOf(i) /\ IsNurseconnect(subs[i])})
          /\ reqs' = reqs
          /\ Enqueues("push_nurseconnect_optout_to_jembi")]_vars

C17_Witness ==
    /\ rec.action = "nurse_optout"
    /\ hist.last = "executed"
    /\ Len(chains) = 1
    /\ chains[1].task = "push_nurseconnect_optout_to_jembi"
    /\ \E i, j, k \in DOMAIN subs :
           /\ subs[i].identity = rec.registrant_id /\ ~subs[i].active /\ IsNurseconnect(subs[i])
           /\ subs[j].identity = rec.registrant_id /\ subs[j].active /\ ~IsNurseconnect(subs[j])
           /\ subs[k].identity # rec.registrant_id /\ subs[k].active /\ IsNurseconnect(subs[k])

\* the registrant's active subscriptions that are not on the channel the
\* change names
OffChannel ==
    {i \in DOMAIN subs :
        /\ ActiveOf(i)
        /\ InName("whatsapp", subs[i].messageset) # (rec.data["channel"] = "whatsapp")}

\* the SubscriptionRequest that mirrors a subscription on the other channel
Mirror(sub) ==
    [identity |-> sub.identity,
     messageset |-> [sub.messageset EXCEPT !.wa = (rec.data["channel"] = "whatsapp")],
     next_sequence_number |-> sub.next_sequence_number,
     lang |-> sub.lang,
     schedule |-> sub.schedule]

\* C18: a channel switch deactivates every active subscription that is not on
\* the target channel and creates for each one SubscriptionRequest on the
\* same message set of the target channel, with its identity, position,
\* language and schedule; the subscriptions on the target channel stay as
\* they are and get no request; the channel switch report is enqueued.
C18_SwitchChannel ==
    [][HandlerRun({"switch_channel"}) =>
          /\ DeactivatesExactly(OffChannel)
          /\ Len(NewRequests) = Cardinality(OffChannel)
          /\ \A i \in OffChannel :
                 Cardinality({k \in DOMAIN NewRequests : NewRequests[k] = Mirror(subs[i])}) = 1
          /\ \A k \in DOMAIN NewRequests :
                 InName("whatsapp", NewRequests[k].messageset) = (rec.data["channel"] = "whatsapp")
          /\ SubSeq(reqs', 1, Len(reqs)) = reqs
          /\ Enqueues("push_channel_switch_to_jembi")]_vars

C18_Witness ==
    /\ rec.action = "switch_channel"
    /\ hist.last = "executed"
    /\ runs = 1
    /\ rec.data["channel"] = "whatsapp"
    /\ Len(reqs) = 1
    /\ reqs[1].messageset = MsName(TRUE, "pmtct_postbirth", "patient", 1)
    /\ reqs[1].next_sequence_number = 6
    /\ reqs[1].lang = "zul_ZA"
    /\ \E i, j \in DOMAIN subs :
           /\ subs[i].active /\ subs[i].messageset = MsName(TRUE, "momconnect_postbirth", "hw_full", 1)
           /\ ~subs[j].active /\ subs[j].messageset = MsName(FALSE, "pmtct_postbirth", "patient", 1)
    /\ Len(chains) = 1
    /\ chains[1].task = "push_channel_switch_to_jembi"

\* the registrant's addresses.msisdn map
Msisdns(ids) == ids[IdIndex(rec.registrant_id)].msisdn

Defaults(ms) == {m \in DOMAIN ms : IsDefault(ms[m])}

\* C19 as stated: after a change of msisdn the new MSISDN is the one default
\* address; every address that was default before is non-default and has the
\* change id appended to changes_from; the new address has the change id
\* appended to changes_to; no address is removed.
C19_PriorDefaultsDemoted ==
    [][HandlerRun({"momconnect_change_msisdn"}) =>
          LET old == Msisdns(idents)
              new == Msisdns(idents')
              n == rec.data["msisdn"]
          IN  /\ Defaults(new) = {n}
              /\ \A m \in Defaults(old) :
                     /\ ~IsDefault(new[m])
                     /\ new[m].changes_from = Append(old[m].changes_from, RecId)
              /\ new[n].changes_to =
                     Append(IF n \in DOMAIN old THEN old[n].changes_to ELSE <<>>, RecId)
              /\ DOMAIN old \subseteq DOMAIN new]_vars

\* C19, amended: after a change of msisdn the new MSISDN is the one default
\* address and has the change id appended to changes_to; every other address
\* that was default before is non-default; the change id is appended to
\* changes_from of every address that was default before (the new MSISDN
\* included, when it was the default already) and, when none was default, of
\* every address; nothing else of an address changes and none is removed.
C19_ChangeMsisdn ==
    [][HandlerRun({"momconnect_change_msisdn"}) =>
          LET old == Msisdns(idents)
              new == Msisdns(idents')
              n == rec.data["msisdn"]
          IN  /\ Defaults(new) = {n}
              /\ DOMAIN new = DOMAIN old \cup {n}
              /\ \A m \in DOMAIN old :
                     /\ m # n => new[m].default = (old[m].default /\ ~IsDefault(old[m]))
                     /\ new[m].changes_from =
                            IF IsDefault(old[m]) \/ Defaults(old) = {}
                            THEN Append(old[m].changes_from, RecId)
                            ELSE old[m].changes_from
                     /\ m # n => new[m].changes_to = old[m].changes_to
              /\ new[n].changes_to =
                     Append(IF n \in DOMAIN old THEN old[n].changes_to ELSE <<>>, RecId)
              /\ n \notin DOMAIN old => new[n].changes_from = <<>>
              /\ "msisdn" \notin DOMAIN rec'.data
              /\ UNCHANGED <<subs, reqs, chains>>]_vars

\* the default has moved from one address to a new one
C19_Witness ==
    /\ rec.action = "momconnect_change_msisdn"
    /\ hist.last = "executed"
    /\ LET ms == Msisdns(idents)
       IN  /\ DOMAIN ms = {"+27821110000", "+27821111111", "+27821112222"}
           /\ Defaults(ms) = {"+27821111111"}
           /\ ms["+27821111111"].changes_to = <<RecId>>
           /\ ms["+27821110000"].changes_from = <<RecId>>
           /\ ms["+27821112222"].changes_from = <<"rec0">>

History(ids) == ids[IdIndex(Registrant)].identification_history

\* the identification fields of the registrant's details, with the change id
PriorIdentification ==
    LET details == idents[IdIndex(rec.registrant_id)].details
    IN  [k \in {"change"} \cup ({"sa_id_no", "passport_no", "passport_origin"}
                                  \cap DOMAIN details) |->
            IF k = "change" THEN RecId ELSE details[k]]

\* C21: identification_history is append-only: a change of identification
\* appends exactly one entry, holding the change id and the sa_id_no,
\* passport_no and passport_origin the identity had, and no step removes or
\* alters an entry.
C21_IdentificationHistoryAppendOnly ==
    /\ [][HandlerRun({"momconnect_change_identification"}) =>
             History(idents') = Append(History(idents), PriorIdentification)]_vars
    /\ [][/\ Len(History(idents')) >= Len(History(idents))
          /\ SubSeq(History(idents'), 1, Len(History(idents))) = History(idents)]_vars

\* a second change of identification has left the entry of the first in
\* place and added its own
C21_Witness ==
    /\ rec.action = "momconnect_change_identification"
    /\ hist.last = "executed"
    /\ Len(History(idents)) = 2
    /\ History(idents)[1]["change"] = "rec0"
    /\ History(idents)[1]["passport_no"] = "zz9876"
    /\ History(idents)[2]["change"] = RecId
    /\ History(idents)[2]["sa_id_no"] = "7805015001052"
    /\ "passport_no" \notin DOMAIN History(idents)[2]

-----------------------------------------------------------------------------
(* Properties of the personal information lifecycle *)

\* the anonymization task of a chain runs to its end in this step
AnonymizeCompletes ==
    \E i \in DOMAIN chains : chains[i].stage = "anon" /\ chains'[i].stage = "done"

\* C22: when the anonymization of a record completes, record.data holds none
\* of the personal keys of its kind and none of the msisdn_* keys; every
\* removed value that is not an MSISDN is in the registrant identity's details
\* under the same key (language under lang_code); every other key of data
\* keeps its value.
C22_AnonymizeMovesPii ==
    [][AnonymizeCompletes =>
         LET kind == rec.kind
             personal == PiiFields(kind) \cup MsisdnFields(kind)
             details == idents'[IdIndex(rec.registrant_id)].details
         IN  /\ DOMAIN rec'.data \cap personal = {}
             /\ \A f \in PiiFields(kind) \cap DOMAIN rec.data :
                    LET k == IF f = "language" THEN "lang_code" ELSE f
                    IN  k \in DOMAIN details /\ details[k] = rec.data[f]
             /\ \A k \in DOMAIN rec.data \ personal :
                    k \in DOMAIN rec'.data /\ rec'.data[k] = rec.data[k]]_vars

\* a registration has been anonymized: its personal keys are on the
\* identity, the language as lang_code, and edd is still in data
C22_Witness ==
    /\ rec.kind = "registration"
    /\ \E i \in DOMAIN chains : chains[i].stage = "done"
    /\ DOMAIN rec.data \cap (PiiFields(rec.kind) \cup MsisdnFields(rec.kind)) = {}
    /\ IdIndex(rec.registrant_id) \in DOMAIN idents
    /\ LET details == idents[IdIndex(rec.registrant_id)].details
       IN  /\ Has(details, "mom_dob") /\ details["mom_dob"] = "1982-03-15"
           /\ Has(details, "lang_code") /\ details["lang_code"] = "eng_ZA"
           /\ ~Has(details, "language")
    /\ Has(rec.data, "edd")
    /\ Has(rec.data, "uuid_registrant")

\* the MSISDNs of data that no identity holds among its addresses
UnknownMsisdns ==
    {rec.data[f] : f \in MsisdnFields(rec.kind) \cap DOMAIN rec.data}
    \ UNION {DOMAIN idents[j].msisdn : j \in DOMAIN idents}

\* C23: anonymization replaces every msisdn_X key of data by the key uuid_X,
\* whose value is the id of an identity having that MSISDN among its msisdn
\* addresses, and it creates an identity only for an MSISDN whose lookup
\* finds none: one per such MSISDN, holding that address alone.
C23_MsisdnsBecomeIdentityIds ==
    [][AnonymizeCompletes =>
         /\ \A f \in MsisdnFields(rec.kind) \cap DOMAIN rec.data :
               /\ f \notin DOMAIN rec'.data
               /\ UuidField(f) \in DOMAIN rec'.data
               /\ \E j \in DOMAIN idents' :
                     /\ rec'.data[UuidField(f)] = IdNames[j]
                     /\ rec.data[f] \in DOMAIN idents'[j].msisdn
         /\ Len(idents') = Len(idents) + Cardinality(UnknownMsisdns)
         /\ \A j \in DOMAIN idents' \ DOMAIN idents :
               \E m \in UnknownMsisdns : DOMAIN idents'[j].msisdn = {m}
         /\ \A j \in DOMAIN idents : idents'[j].msisdn = idents[j].msisdn]_vars

\* an anonymized registration: uuid_registrant is the identity that held the
\* registrant's number, uuid_device an identity created for the device's
\* number, which no identity held
C23_Witness ==
    /\ rec.kind = "registration"
    /\ \E i \in DOMAIN chains : chains[i].stage = "done"
    /\ Has(rec.data, "uuid_registrant") /\ rec.data["uuid_registrant"] = IdNames[1]
    /\ Has(rec.data, "uuid_device") /\ rec.data["uuid_device"] = IdNames[2]
    /\ ~Has(rec.data, "msisdn_device")
    /\ Len(idents) = 2
    /\ DOMAIN idents[1].msisdn = {"+27821110000"}
    /\ DOMAIN idents[2].msisdn = {"+27821112222"}

\* a delivery of the anonymization task of the record
RemovePiiRuns == pii'.deliveries = pii.deliveries + 1

\* C24: anonymization is idempotent: a second run on the same record leaves
\* record.data, the identities' details and the set of identities as the
\* first left them; it creates no identity and writes no field.
C24_AnonymizeIdempotent ==
    [][RemovePiiRuns /\ pii.deliveries >= 1 => rec' = rec /\ idents' = idents]_vars

\* the anonymization task has run twice on a record that had personal keys,
\* an MSISDN among them for which an identity was created
C24_Witness ==
    /\ pii.deliveries = 2
    /\ PiiFields(rec.kind) \cap DOMAIN pii.before.data # {}
    /\ Has(pii.before.data, "msisdn_device")
    /\ PiiKeys(rec) = {}
    /\ Has(rec.data, "uuid_device")
    /\ IdIndex(rec.data["uuid_device"]) = Len(idents)
    /\ DOMAIN idents[Len(idents)].msisdn = {pii.before.data["msisdn_device"]}

\* the rehydration of the anonymized record returns a record
RehydratesAnonymized == pii.deliveries >= 1 /\ pii'.rehydrated # pii.rehydrated

\* every personal key the record had before its anonymization is in r.data
\* with the value it had
RoundTrip(r) ==
    \A f \in PiiKeys(pii.before) : Has(r.data, f) /\ r.data[f] = pii.before.data[f]

\* C25: round trip: the rehydration of an anonymized record returns every
\* personal field the record had, every msisdn_* field included, with its
\* original value, the language under the key language; also when other
\* records of the same registrant were anonymized in between.
C25_RoundTrip ==
    [][RehydratesAnonymized => RoundTrip(pii'.rehydrated[1])]_vars

-----------------------------------------------------------------------------
(* Properties of the resolution of identities by address *)

\* invocation p returns the identity at position j without creating one
Finds(p, j) ==
    /\ calls[p].pc = "search"
    /\ calls'[p].pc = "returned"
    /\ calls'[p].identity = j

\* invocation p creates an identity
Creates(p) == calls[p].pc = "create" /\ calls'[p].pc = "returned"

\* the identity created by p holds the address of p alone, marked default
CreatedPrimary(p) ==
    /\ Len(idents') = Len(idents) + 1
    /\ calls'[p].identity = Len(idents')
    /\ DOMAIN idents'[Len(idents')].msisdn = {calls[p].address}
    /\ IsDefault(idents'[Len(idents')].msisdn[calls[p].address])

\* C26 as stated: the identity returned has the address as the default entry
\* among its msisdn addresses; an identity is created when no identity has
\* it as its default entry, with the address as its only msisdn address,
\* default == true.
C26_ReturnsDefaultAddress ==
    [][\A p \in DOMAIN calls :
          /\ \A j \in DOMAIN idents :
                Finds(p, j) => /\ calls[p].address \in DOMAIN idents[j].msisdn
                               /\ IsDefault(idents[j].msisdn[calls[p].address])
          /\ calls[p].pc = "search" /\ calls'[p].pc = "create" =>
                ~\E j \in DOMAIN idents :
                    /\ calls[p].address \in DOMAIN idents[j].msisdn
                    /\ IsDefault(idents[j].msisdn[calls[p].address])
          /\ (calls[p].pc = "search" /\ calls'[p] # calls[p] /\
              ~\E j \in DOMAIN idents :
                  /\ calls[p].address \in DOMAIN idents[j].msisdn
                  /\ IsDefault(idents[j].msisdn[calls[p].address]))
                => calls'[p].pc # "returned"
          /\ Creates(p) => CreatedPrimary(p)]_vars

\* C26 (amended): the identity returned is the first that holds the address
\* among its msisdn addresses and has no other msisdn address marked default
\* (the address itself need not be marked); an identity is created exactly
\* when no identity is such, with the address as its only msisdn address,
\* default == true.
C26_ReturnsPrimaryAddress ==
    [][\A p \in DOMAIN calls :
          LET address == calls[p].address
              primary == {j \in DOMAIN idents :
                             /\ address \in DOMAIN idents[j].msisdn
                             /\ \A a \in DOMAIN idents[j].msisdn \ {address} :
                                   ~IsDefault(idents[j].msisdn[a])}
          IN  /\ \A j \in DOMAIN idents :
                    Finds(p, j) => j \in primary /\ \A i \in primary : j <= i
              /\ calls[p].pc = "search" /\ calls'[p].pc = "create" => primary = {}
              /\ calls[p].pc = "search" /\ calls'[p] # calls[p] /\ primary = {} =>
                     calls'[p].pc = "create"
              /\ Creates(p) => CreatedPrimary(p)]_vars

\* one invocation has returned an identity it found, whose address carries no
\* default mark, and the other has created an identity for the second number
C26_Witness ==
    /\ calls[1].pc = "returned" /\ calls[2].pc = "returned"
    /\ calls[1].address = FirstNumber /\ calls[2].address = SecondNumber
    /\ calls[1].identity = 1
    /\ ~IsDefault(idents[1].msisdn[FirstNumber])
    /\ Len(idents) = 2
    /\ calls[2].identity = 2
    /\ DOMAIN idents[2].msisdn = {SecondNumber}
    /\ IsDefault(idents[2].msisdn[SecondNumber])

\* every invocation that has returned holds an identity with its address
EachReturnsHolder ==
    \A p \in DOMAIN calls :
        calls[p].pc = "returned" =>
            /\ calls[p].identity \in DOMAIN idents
            /\ calls[p].address \in DOMAIN idents[calls[p].identity].msisdn

\* C27: two concurrent invocations for the same address: in every
\* interleaving each invocation ends returning an identity that holds the
\* address (so at least one identity holds it); nothing keeps the identity
\* unique: when no identity held the address both can create one.
C27_ConcurrentResolution ==
    /\ [](\A p \in DOMAIN calls : calls[p].pc \in {"search", "create", "returned"})
    /\ []EachReturnsHolder
    /\ [][\A p \in DOMAIN calls :
             /\ calls[p].pc = "returned" => calls'[p] = calls[p]
             /\ \A j \in DOMAIN idents : idents'[j] = idents[j]]_vars

\* both invocations for the first number have returned, each the identity it
\* created: the Identity Service, which held nothing, holds two identities
\* for the number
C27_Witness ==
    /\ calls[1].address = FirstNumber /\ calls[2].address = FirstNumber
    /\ calls[1].pc = "returned" /\ calls[2].pc = "returned"
    /\ calls[1].identity # calls[2].identity
    /\ Len(idents) = 2
    /\ DOMAIN idents[1].msisdn = {FirstNumber}
    /\ DOMAIN idents[2].msisdn = {FirstNumber}
    /\ idents[1].details = Put(EmptyMap, "default_addr_type", "msisdn")
    /\ idents[2].details = Put(EmptyMap, "default_addr_type", "msisdn")

-----------------------------------------------------------------------------
(* Properties of validate *)

\* validate is called on the record in this step
ValidateCalled == runs' = runs + 1

\* reg_types validate answers "not yet supported" for
Unsupported(r) ==
    r.kind = "registration" /\ r.action \in {"momconnect_postbirth", "loss_general"}

\* whether the value v of field k of a record of kind and action a is valid
FieldValid(kind, a, k, v) ==
    CASE k = "reason" ->
             (CASE a \in {"pmtct_loss_switch", "pmtct_loss_optout", "momconnect_loss_switch",
                         "momconnect_loss_optout"} ->
                       v \in {"miscarriage", "stillbirth", "babyloss"}
                [] a = "pmtct_nonloss_optout" ->
                       v \in {"not_hiv_pos", "not_useful", "other", "unknown"}
                [] a = "momconnect_nonloss_optout" ->
                       v \in {"not_useful", "other", "unknown", "sms_failure"}
                [] a = "nurse_optout" ->
                       v \in {"job_change", "number_owner_change", "not_useful", "other",
                              "unknown"}
                [] OTHER -> TRUE)
      [] k = "language" -> v \in {"eng_ZA", "zul_ZA"}
      [] k \in {"mom_dob", "dob"} -> v \in {"1999-01-27", "1982-03-15"}
      [] k = "baby_dob" -> v = "2015-12-01"
      [] k = "edd" -> v \in {"2016-05-01", "2016-02-20", "2016-09-22"}
      [] k = "operator_id" -> v = "operator-uuid"
      [] k \in {"msisdn", "msisdn_registrant", "msisdn_device", "msisdn_old", "msisdn_new"} ->
             v \in {"+27821110000", "+27821111111", "+27821112222"}
      [] k = "faccode" -> v = "123456"
      [] k = "sanc_no" -> v = "12345678"
      [] k = "persal_no" -> v = "11114444"
      [] k = "consent" -> v = "true"
      [] k = "id_type" ->
             IF kind = "change" THEN v \in {"sa_id", "passport"}
             ELSE v \in {"sa_id", "passport", "none"}
      [] k = "sa_id_no" -> v = "8108015001051"
      [] k = "passport_no" -> v = "abc1234"
      [] k = "passport_origin" -> v \in {"na", "zw"}
      [] k = "channel" -> v \in {"whatsapp", "sms"}
      [] OTHER -> TRUE

\* the fields of identification a record with this id_type is to carry
IdFields(r, with_dob) ==
    {"id_type"} \cup
    (IF ~Has(r.data, "id_type") THEN {}
     ELSE CASE r.data["id_type"] = "sa_id" ->
                   {"sa_id_no"} \cup (IF with_dob # "" THEN {with_dob} ELSE {})
            [] r.data["id_type"] = "passport" ->
                   {"passport_no", "passport_origin"}
                   \cup (IF with_dob = "dob" THEN {with_dob} ELSE {})
            [] r.data["id_type"] = "none" /\ with_dob = "mom_dob" -> {with_dob}
            [] OTHER -> {})

\* the fields a record of this type is to carry
RequiredFields(r) ==
    IF r.kind = "change"
    THEN CASE r.action \in {"pmtct_loss_switch", "pmtct_loss_optout",
                            "momconnect_loss_switch", "momconnect_loss_optout",
                            "pmtct_nonloss_optout", "momconnect_nonloss_optout",
                            "nurse_optout"} -> {"reason"}
           [] r.action = "nurse_update_detail" ->
                  IF Has(r.data, "id_type") THEN IdFields(r, "dob")
                  ELSE {"faccode", "sanc_no", "persal_no"} \cap DOMAIN r.data
           [] r.action = "nurse_change_msisdn" -> {"msisdn_old", "msisdn_new", "msisdn_device"}
           [] r.action = "momconnect_change_language" -> {"language"}
           [] r.action = "momconnect_change_msisdn" -> {"msisdn"}
           [] r.action = "momconnect_change_identification" -> IdFields(r, "")
           [] r.action = "admin_change_subscription" -> {"subscription"}
           [] r.action = "switch_channel" -> {"channel"}
           [] OTHER -> {}
    ELSE CASE r.action \in {"pmtct_prebirth", "whatsapp_pmtct_prebirth"} ->
                  {"language", "mom_dob", "edd", "operator_id"}
           [] r.action \in {"pmtct_postbirth", "whatsapp_pmtct_postbirth"} ->
                  {"language", "mom_dob", "baby_dob", "operator_id"}
           [] r.action \in {"nurseconnect", "whatsapp_nurseconnect"} ->
                  {"faccode", "operator_id", "msisdn_registrant", "msisdn_device", "language"}
           [] r.action \in {"momconnect_prebirth", "whatsapp_prebirth"} ->
                  {"operator_id", "msisdn_registrant", "msisdn_device", "language", "consent"}
                  \cup (IF r.authority \in {"hw_full", "hw_partial"}
                        THEN IdFields(r, "mom_dob") ELSE {})
                  \cup (IF r.authority = "hw_full" THEN {"edd", "faccode"} ELSE {})
           [] OTHER -> {}

\* a record with a valid registrant_id and all required fields present and
\* valid; a nurse detail update carries one detail and nothing else, a nurse
\* change of msisdn its three numbers and nothing else, the device's being
\* the old or the new one; an admin change names a message set or a language
WellFormed(r) ==
    /\ r.registrant_id = Registrant
    /\ r.invalid = <<>>
    /\ \A k \in RequiredFields(r) :
          Has(r.data, k) /\ FieldValid(r.kind, r.action, k, r.data[k])
    /\ r.kind = "change" /\ r.action = "nurse_update_detail" =>
          /\ DOMAIN r.data = RequiredFields(r)
          /\ \/ Has(r.data, "id_type")
             \/ Cardinality(DOMAIN r.data) = 1
    /\ r.kind = "change" /\ r.action = "nurse_change_msisdn" =>
          /\ DOMAIN r.data = RequiredFields(r)
          /\ r.data["msisdn_device"] \in {r.data["msisdn_old"], r.data["msisdn_new"]}
    /\ r.kind = "change" /\ r.action = "admin_change_subscription" =>
          Has(r.data, "messageset") \/ Has(r.data, "language")

ReportsMissing(e) ==
    CASE e = "Optout reason is missing" -> {"reason"}
      [] e = "language field is missing" -> {"language"}
      [] e = "msisdn field is missing" -> {"msisdn"}
      [] e = "ID type missing" -> {"id_type"}
      [] e = "SA ID number missing" -> {"sa_id_no"}
      [] e = "Passport number missing" -> {"passport_no"}
      [] e = "Passport origin missing" -> {"passport_origin"}
      [] e = "Subscription field is missing" -> {"subscription"}
      [] e = "One of these fields must be populated: messageset, language" ->
             {"messageset", "language"}
      [] e = "'channel' is a required field" -> {"channel"}
      [] e \in {"No details to update", "Could not parse detail update request"} ->
             {"faccode", "sanc_no", "persal_no", "id_type"}
      [] e = "SA ID update requires fields id_type, sa_id_no, dob" ->
             {"id_type", "sa_id_no", "dob"}
      [] e = "Passport update requires fields id_type, passport_no, passport_origin, dob" ->
             {"id_type", "passport_no", "passport_origin", "dob"}
      [] e = "SA ID update requires fields msisdn_old, msisdn_new, msisdn_device" ->
             {"msisdn_old", "msisdn_new", "msisdn_device"}
      [] e = "Language is missing from data" -> {"language"}
      [] e = "Mother DOB missing" -> {"mom_dob"}
      [] e = "Estimated Due Date missing" -> {"edd"}
      [] e = "Baby Date of Birth missing" -> {"baby_dob"}
      [] e = "Operator ID missing" -> {"operator_id"}
      [] e = "MSISDN of Registrant missing" -> {"msisdn_registrant"}
      [] e = "MSISDN of device missing" -> {"msisdn_device"}
      [] e = "Facility (clinic) code missing" -> {"faccode"}
      [] e = "Consent is missing" -> {"consent"}
      [] OTHER -> {}

FieldNames ==
    {"reason", "language", "msisdn", "id_type", "sa_id_no", "passport_no",
     "passport_origin", "subscription", "channel", "faccode", "sanc_no", "persal_no",
     "dob", "msisdn_old", "msisdn_new", "msisdn_device", "msisdn_registrant", "mom_dob",
     "edd", "baby_dob", "operator_id", "consent"}

GoodValues ==
    {"miscarriage", "not_hiv_pos", "not_useful", "job_change", "zul_ZA", "1982-03-15",
     "2015-12-01", "2016-05-01", "operator-uuid", "+27821110000", "+27821111111",
     "123456", "12345678", "11114444", "true", "sa_id", "passport", "none",
     "8108015001051", "abc1234", "na", "sub1", "whatsapp"}

\* the fields X such that r is valid except that required field X is missing
MissingFields(r) ==
    {X \in FieldNames \ DOMAIN r.data :
        \E v \in GoodValues :
            LET g == [r EXCEPT !.data = Put(@, X, v)]
            IN  WellFormed(g) /\ X \in RequiredFields(g)}

ErrorField(e) ==
    CASE e = "Invalid UUID registrant_id" -> "registrant_id"
      [] e \in {"Language is missing from data", "Language not a valid option"} -> "language"
      [] e \in {"Mother DOB missing", "Mother DOB invalid"} -> "mom_dob"
      [] e \in {"Estimated Due Date missing", "Estimated Due Date invalid"} -> "edd"
      [] e \in {"Baby Date of Birth missing", "Baby Date of Birth invalid",
                "Baby Date of Birth cannot be in the future"} -> "baby_dob"
      [] e \in {"Operator ID missing", "Operator ID invalid"} -> "operator_id"
      [] e \in {"MSISDN of Registrant missing", "MSISDN of Registrant invalid"} ->
             "msisdn_registrant"
      [] e \in {"MSISDN of device missing", "MSISDN of device invalid"} -> "msisdn_device"
      [] e \in {"Facility (clinic) code missing", "Facility code invalid"} -> "faccode"
      [] e \in {"Consent is missing", "Cannot continue without consent"} -> "consent"
      [] e \in {"ID type missing", "ID type should be one of ['sa_id', 'passport', 'none']",
                "ID type should be 'sa_id' or 'passport'"} -> "id_type"
      [] e \in {"SA ID number missing", "SA ID number invalid"} -> "sa_id_no"
      [] e \in {"Passport number missing", "Passport number invalid"} -> "passport_no"
      [] e \in {"Passport origin missing", "Passport origin invalid"} -> "passport_origin"
      [] e = "One of these fields must be populated: messageset, language" -> "messageset"
      [] e = "Subscription field is missing" -> "subscription"
      [] OTHER -> "the one check of the action"

\* the order in which validate runs the checks of a record's type
DeclaredOrder(r) ==
    <<"registrant_id">> \o
    (IF r.kind = "change"
     THEN CASE r.action = "momconnect_change_identification" ->
                   <<"id_type", "sa_id_no", "passport_no", "passport_origin">>
            [] r.action = "admin_change_subscription" -> <<"messageset", "subscription">>
            [] OTHER -> <<"the one check of the action">>
     ELSE CASE r.action \in {"pmtct_prebirth", "whatsapp_pmtct_prebirth"} ->
                   <<"language", "mom_dob", "edd", "operator_id">>
            [] r.action \in {"pmtct_postbirth", "whatsapp_pmtct_postbirth"} ->
                   <<"language", "mom_dob", "baby_dob", "operator_id">>
            [] r.action \in {"nurseconnect", "whatsapp_nurseconnect"} ->
                   <<"faccode", "operator_id", "msisdn_registrant", "msisdn_device",
                     "language">>
            [] r.action \in {"momconnect_prebirth", "whatsapp_prebirth"} ->
                   <<"operator_id", "msisdn_registrant", "msisdn_device", "language",
                     "consent", "id_type", "sa_id_no", "passport_no", "passport_origin",
                     "mom_dob", "edd", "faccode">>
            [] OTHER -> <<"the one check of the action">>)

\* the errors come in the declared order, one per check at most
InDeclaredOrder(r, errors) ==
    LET order == DeclaredOrder(r)
        At(e) == {i \in DOMAIN order : order[i] = ErrorField(e)}
    IN  /\ \A i \in DOMAIN errors : At(errors[i]) # {}
        /\ \A i, j \in DOMAIN errors :
              i < j => \A a \in At(errors[i]), b \in At(errors[j]) : a < b

\* C30: the error list written to invalid_fields is deterministic and
\* ordered: the registrant_id error, if any, comes first, then the errors of
\* the checks of the record's type in their declared order; validating the
\* same record twice yields the same list.
C30_ErrorListStable ==
    [][ValidateCalled =>
          /\ ~is_valid_uuid(rec.registrant_id) =>
                rec'.invalid # <<>> /\ rec'.invalid[1] = "Invalid UUID registrant_id"
          /\ InDeclaredOrder(rec, rec'.invalid)
          /\ runs >= 1 => rec'.invalid = rec.invalid]_vars

-----------------------------------------------------------------------------
(* Properties of validate on unexpected records *)

\* C31: validation never raises: for any record, data null or empty or a
\* field of unexpected value included, a call of validate returns, with the
\* record validated or with the problems as strings in invalid_fields.
C31_ValidationNeverRaises ==
    [][ValidateCalled =>
          /\ hist'.last = "returned"
          /\ rec'.validated \/ rec'.invalid # <<>>]_vars

\* the field set a cross-field check of the record requires, {} when the
\* record is not subject to one
ExpectedFields(r) ==
    IF r.kind = "change" /\ r.action = "nurse_change_msisdn"
    THEN {"msisdn_old", "msisdn_new", "msisdn_device"}
    ELSE IF r.kind = "change" /\ r.action = "nurse_update_detail" /\ Has(r.data, "id_type")
    THEN (CASE r.data["id_type"] = "sa_id" -> {"id_type", "sa_id_no", "dob"}
            [] r.data["id_type"] = "passport" ->
                   {"id_type", "passport_no", "passport_origin", "dob"}
            [] OTHER -> {})
    ELSE {}

\* the one error that says the field set is wrong: that of the record's
\* branch, or, when data holds a detail that is updated on its own, the error
\* that only one detail can be updated
WrongFieldSet(r) ==
    IF r.action = "nurse_change_msisdn"
    THEN "SA ID update requires fields msisdn_old, msisdn_new, msisdn_device"
    ELSE IF DataFields(r) \cap {"faccode", "sanc_no", "persal_no"} # {}
    THEN "Only one detail update can be submitted per Change"
    ELSE IF r.data["id_type"] = "sa_id"
    THEN "SA ID update requires fields id_type, sa_id_no, dob"
    ELSE "Passport update requires fields id_type, passport_no, passport_origin, dob"

\* the errors about the value of a field of a cross-field check
FormatErrors ==
    {"Date of birth is invalid", "SA ID number is invalid", "Passport number is invalid",
     "Passport origin is invalid", "Invalid old msisdn",
     "Device msisdn should be the same as new or old msisdn"}

\* C32: the cross-field checks require exact set equality: for a
\* nurse_update_detail change with id_type sa_id or passport and for a
\* nurse_change_msisdn change, a set of data keys that differs from the
\* expected set (a key missing or a further key present) yields exactly one
\* "wrong field set" error and no error about a single field; an equal set
\* yields nothing but errors about the format of the values.
C32_ExactFieldSet ==
    [][ValidateCalled /\ ExpectedFields(rec) # {} =>
          IF DataFields(rec) # ExpectedFields(rec)
          THEN /\ ~rec'.validated
               /\ rec'.invalid = RegistrantErrors(rec) \o <<WrongFieldSet(rec)>>
          ELSE \E format \in {<<>>} \cup {<<e>> : e \in FormatErrors} :
                  LET errors == RegistrantErrors(rec) \o format
                  IN  IF errors = <<>>
                      THEN rec'.validated /\ rec'.invalid = <<>>
                      ELSE ~rec'.validated /\ rec'.invalid = errors]_vars

\* an identification update of a nurse with a further key was answered with
\* the one error of the SA ID field set, and says nothing of the bad dob
C32_Witness ==
    /\ rec.kind = "change"
    /\ rec.action = "nurse_update_detail"
    /\ runs = 1
    /\ DOMAIN rec.data = {"id_type", "sa_id_no", "dob", "notes"}
    /\ rec.data["id_type"] = "sa_id"
    /\ rec.data["dob"] = "bad"
    /\ ~rec.validated
    /\ rec.invalid = <<"SA ID update requires fields id_type, sa_id_no, dob">>

\* validate is called on a nurseconnect registration with a valid registrant_id
NurseconnectValidated ==
    /\ ValidateCalled
    /\ rec.kind = "registration"
    /\ InRegType("nurseconnect", rec.action)
    /\ is_valid_uuid(rec.registrant_id)
    /\ ~validate_raises(rec)

\* data holds valid values of the four fields of a nurse's registration
HoldsNurseDetails(data) ==
    /\ {"operator_id", "msisdn_registrant", "msisdn_device", "faccode"} \subseteq DOMAIN data
    /\ is_valid_uuid(data["operator_id"])
    /\ is_valid_msisdn(data["msisdn_registrant"])
    /\ is_valid_msisdn(data["msisdn_device"])
    /\ is_valid_faccode(data["faccode"])

-----------------------------------------------------------------------------
(* Properties of the schedule sequencer *)

\* the short name of the lookup has been determined
Named == sequencer.stage \in {"named", "resolved"}

\* C34: the short name buckets the position by fixed thresholds, for every
\* position: pmtct_prebirth below 30 is batch 1, 30..34 batch 2, 35 and above
\* batch 3; pmtct_postbirth up to 1 is batch 1, 2 and above batch 2; positions
\* below the lowest threshold fall in batch 1 and above the highest in the
\* last batch; any other type is batch 1. Positions 29 and 30 of
\* pmtct_prebirth so have the adjacent keys of batch 1 and batch 2.
C34_ShortNameBuckets ==
    Named =>
        LET weeks == sequencer.weeks
            name == sequencer.short_name
            set == BaseName(sequencer.reg_type)
        IN  /\ name.set = set
            /\ name.auth = sequencer.authority
            /\ name.wa = IsWhatsappName(sequencer.reg_type)
            /\ set = "pmtct_prebirth" =>
                  name.batch = (CASE weeks < 30 -> 1
                                  [] weeks >= 30 /\ weeks <= 34 -> 2
                                  [] weeks >= 35 -> 3)
            /\ set = "pmtct_postbirth" =>
                  name.batch = (CASE weeks <= 1 -> 1 [] weeks >= 2 -> 2)
            /\ set \notin {"pmtct_prebirth", "pmtct_postbirth"} => name.batch = 1

\* week 30 of a PMTCT pregnancy was given the second batch
C34_Witness ==
    /\ sequencer.stage = "named"
    /\ sequencer.reg_type = "pmtct_prebirth"
    /\ sequencer.weeks = 30
    /\ sequencer.short_name = MsName(FALSE, "pmtct_prebirth", sequencer.authority, 2)

\* the lookup has returned the sequence of a PMTCT message set
ResolvedPmtct ==
    /\ sequencer.stage = "resolved"
    /\ sequencer.short_name.set \in {"pmtct_prebirth", "pmtct_postbirth"}

\* the last week of a batch of a message set
BatchEnd(ms) ==
    IF ms.set = "pmtct_prebirth"
    THEN (CASE ms.batch = 1 -> 29 [] ms.batch = 2 -> 34 [] OTHER -> 41)
    ELSE IF ms.batch = 1 THEN 1 ELSE MaxWeeks

\* C35, as stated: the sequence number is (position - batch start position)
\* * messages per cycle + 1: 1 at the start of the batch and the schedule's
\* messages per cycle more for every further week, for every batch of
\* pmtct_prebirth and pmtct_postbirth.
C35_SequenceFromBatchStart ==
    ResolvedPmtct /\ sequencer.weeks >= BatchStart(sequencer.short_name)
                  /\ sequencer.weeks <= BatchEnd(sequencer.short_name) =>
        sequencer.next_sequence_number =
            (sequencer.weeks - BatchStart(sequencer.short_name))
                * MsgsPerWeek(sequencer.short_name) + 1

\* C35, amended: for a batch of pmtct_postbirth the sequence number is
\* (position - batch start) * messages per week + 1, the batches starting at
\* weeks 0 and 2; for a batch of pmtct_prebirth it is (position - base) *
\* messages per week and at least 1, the bases being 6, 30 and 35: batch 1 is
\* at 1 in week 7 and one message further every week; batches 2 and 3 are at
\* 1 in their first week (30, 35), at messages per week in the next and that
\* many further every week, up to week 41; week 42 is at 20.
C35_SequenceNumber ==
    ResolvedPmtct =>
        LET ms == sequencer.short_name
            weeks == sequencer.weeks
            m == MsgsPerWeek(ms)
            seq == sequencer.next_sequence_number
            least(n) == IF n < 1 THEN 1 ELSE n
        IN  /\ sequencer.messageset = ms
            /\ ms.set = "pmtct_postbirth" /\ weeks >= 0 =>
                  seq = (weeks - BatchStart(ms)) * m + 1
            /\ ms.set = "pmtct_prebirth" /\ weeks <= 41 =>
                  seq = least((weeks - (CASE ms.batch = 1 -> 6
                                          [] ms.batch = 2 -> 30
                                          [] OTHER -> 35)) * m)
            /\ ms.set = "pmtct_prebirth" /\ weeks = 42 => seq = 20

\* week 31 of a PMTCT pregnancy starts at message 2 of the second batch
C35_Witness ==
    /\ sequencer.stage = "resolved"
    /\ sequencer.reg_type = "pmtct_prebirth"
    /\ sequencer.weeks = 31
    /\ sequencer.short_name.batch = 2
    /\ sequencer.next_sequence_number = 2

\* C36: every SubscriptionRequest the pipeline creates, by any registration
\* or change handler and for any position, positions before the start of the
\* batch included, has a next_sequence_number of at least 1.
C36_PositiveSequenceNumber ==
    \A i \in DOMAIN reqs : reqs[i].next_sequence_number >= 1

\* a PMTCT registration in week 3 of the pregnancy, before the first message
\* of the set, has its SubscriptionRequest at message 1
C36_Witness ==
    /\ rec.kind = "registration"
    /\ rec.action = "pmtct_prebirth"
    /\ Has(rec.data, "edd")
    /\ get_pregnancy_week(rec.data["edd"]) = 3
    /\ \E i \in DOMAIN reqs :
          /\ reqs[i].messageset.set = "pmtct_prebirth"
          /\ reqs[i].next_sequence_number = 1

-----------------------------------------------------------------------------
(* Properties of the submission of a nurse's optout *)

\* C37: when a nurse-optout change has no prior registration for its
\* registrant, the submission step logs the inconsistency and returns without
\* raising and without sending a POST to the reporting service.
C37_MissingRegistrationNotSubmitted ==
    [][\A i \in DOMAIN chains :
          /\ chains[i].task = "push_nurseconnect_optout_to_jembi"
          /\ chains'[i] # chains[i]
          /\ chains'[i].registration = "None"
          => /\ ~chains'[i].raised
             /\ chains'[i].returned
             /\ chains'[i].attempts = chains[i].attempts]_vars

-----------------------------------------------------------------------------
(* Properties of the handlers under redelivery *)

\* the registrant's subscriptions to a prebirth message set of a programme
\* that have been deactivated
DeactivatedPrebirth(programme) ==
    {i \in DOMAIN subs :
        /\ subs[i].identity = rec.registrant_id
        /\ ~subs[i].active
        /\ subs[i].messageset.set = programme \o "_prebirth"}

\* the SubscriptionRequests for the registrant to the postbirth message set
\* of a programme, after the step
PostbirthRequests(programme) ==
    {k \in DOMAIN reqs' :
        /\ reqs'[k].identity = rec.registrant_id
        /\ reqs'[k].messageset.set = programme \o "_postbirth"}

\* C38: under at-least-once delivery, when baby_switch was interrupted after
\* deactivating the registrant's prebirth subscriptions and before creating
\* the postbirth SubscriptionRequest, the next execution for the same change
\* still creates it: a registrant who had an active momconnect (or pmtct)
\* prebirth subscription then has exactly one SubscriptionRequest for the
\* corresponding postbirth message set.
C38_InterruptedBabySwitchResumes ==
    [][rec.action = "baby_switch" /\ hist.last = "interrupted" /\ hist'.last = "executed" =>
          \A programme \in {"momconnect", "pmtct"} :
              DeactivatedPrebirth(programme) # {} =>
                  Cardinality(PostbirthRequests(programme)) = 1]_vars

-----------------------------------------------------------------------------
(* Properties of the record at the end of the pipeline *)

\* C39: in every reachable state no record has both validated == true and
\* data.invalid_fields set, also after the pipeline has run again on a change
\* of msisdn or of identification whose handler removed msisdn / id_type from
\* data.
C39_ValidatedHasNoInvalidFields == ~(rec.validated /\ rec.invalid # <<>>)

\* the run task has executed the handler without error and every task it
\* enqueued has finished without error
PipelineFinished ==
    /\ hist.last = "executed"
    /\ \A i \in DOMAIN chains : chains[i].stage = "done"

\* C40: every validated record whose pipeline runs without error is
\* eventually anonymized: once its tasks have finished, its data holds none
\* of the personal fields or msisdn_* keys, also for the changes whose handler
\* returns no submission step.
C40_ValidatedEventuallyAnonymized ==
    rec.validated /\ PipelineFinished => PiiKeys(rec) = {}

=============================================================================
